---- MODULE Spec2Model ----
(***************************************************************************)
(* Bidirectional spreadsheet <-> table synchronisation.                    *)
(*                                                                         *)
(* Spec      one sync configuration: the spreadsheet grid, the target      *)
(*           table, the change log written by the table's triggers, the    *)
(*           SyncState row, and the two directional workers run in the     *)
(*           order syncConfigWithRetry runs them.                          *)
(* SpecLive  Spec with the fairness of the periodic driver.                *)
(* SpecOrch  the orchestrator: start/stop, the periodic timers, manual     *)
(*           triggers, overlapping cycles, retry and the dead-letter       *)
(*           queue, with each worker execution reduced to its outcome.     *)
(* SpecRetry one call of retry(fn, options), invocation by invocation.     *)
(* SpecResolve  ConflictResolver.resolveConflict on one conflict.          *)
(* SpecDetect   ChangeDetector.detect on one pair of row lists.            *)
(* SpecDlq      DeadLetterQueue.add, called until the queue overflows.     *)
(* SpecConflicts  ConflictResolver.detectConflicts on one pair of change   *)
(*            lists.                                                       *)
(* SpecFault   Spec with worker runs in which a call to the table or to    *)
(*            the spreadsheet raises an error.                             *)
(* SpecBacklog Spec with the change-log scan limit scaled down, external   *)
(*            table writes only, and the fairness of the periodic driver.  *)
(* SpecIdem    Spec with the idempotency store and operation ids that can  *)
(*            repeat.                                                      *)
(* SpecGate    two worker runs passing the idempotency gate side by side.  *)
(* SpecPool    the adapter's pooled connections and their session tags.    *)
(* SpecBreaker one CircuitBreaker with calls in flight, a clock and reset. *)
(* SpecQueue   one InMemoryQueue: enqueue, process, close, its handler.    *)
(***************************************************************************)
EXTENDS Integers, Sequences, FiniteSets, TLC

(***************************************************************************)
(* Bounds of the model.                                                    *)
(***************************************************************************)
\* external writes (by a spreadsheet user or another database client)
MaxExternal == 2
\* data rows of the spreadsheet when the configuration is created
MaxInitRows == 2
\* calls of syncCycle and of triggerManualSync (SpecOrch)
MaxCycles == 2
\* worker attempts that fail (SpecOrch)
MaxFaults == 5
\* options.maxAttempts of a retry() call ranges over 0..MaxRetryOption
MaxRetryOption == 3
\* change timestamps of a conflict range over 0..MaxTimestamp
MaxTimestamp == 2
\* rows of each argument of ChangeDetector.detect (SpecDetect)
MaxDetectRows == 2
\* calls of DeadLetterQueue.add beyond the size of the queue (SpecDlq)
MaxDlqOverflow == 3
\* changes on each side of a call of ConflictResolver.detectConflicts
MaxChanges == 2
\* worker runs that fail on a remote call (SpecFault)
MaxRunFaults == 1
\* external writes in SpecFault
MaxFaultExternal == 1
\* the scan limit of the backlog specification, standing for ChangeLogLimit
ScaledLimit == 1
\* external table writes of the backlog specification
MaxBacklog == 2

(***************************************************************************)
(* Data domain: column mapping {A: id, B: name}; A is the primary key.     *)
(* Cells and column values are trimmed strings; "" is an empty cell.       *)
(***************************************************************************)
Keys == {"1", "2"}
KeyOrder == <<"1", "2">>
Vals == {"a", "b"}
NoRow == "<no row>"
Header == <<"id", "name">>
BlankRow == <<"", "">>
PkNull == "<null>"
NoError == "<none>"
\* the message of the TypeError escapeId raises on a non-string identifier
TypeErrorMsg == "identifier.replace is not a function"

VARIABLES
    sheet,          \* the spreadsheet range: a sequence of rows, row 1 the header
    sheetEtag,      \* the remote version marker of the spreadsheet
    db,             \* the target table: primary key -> name, or NoRow
    changeLog,      \* __sync_change_log, in id order
    syncState,      \* the config's sync_state row
    history,        \* the latest sync_history row of each direction
    pc,             \* where syncConfigWithRetry stands: idle, sheet_to_db, db_to_sheet
    dbSyncNeeded,   \* dbSyncNeeded as computed when the cycle began
    extLeft,        \* external writes still allowed
    consumed,       \* ids of the change-log entries a T->S run has written out
    loop,           \* bookkeeping of cycles since the last external write
    streak          \* bookkeeping: which worker's last run still stands

dataVars == <<sheet, sheetEtag, db, changeLog, syncState, history, pc,
              dbSyncNeeded, extLeft, consumed, loop, streak>>

\* the orchestrator (SpecOrch)
VARIABLES
    isRunning,      \* SyncOrchestrator.isRunning
    timers,         \* interval timers created by start(); none is ever cleared
    calls,          \* the calls of syncCycle / triggerManualSync, by number
    started,        \* how many calls have been made
    lastSync,       \* per config: last_sheet_sync_at and last_db_sync_at
    dlq,            \* DeadLetterQueue.entries
    events,         \* what the event sink has been asked to broadcast
    faults          \* failing worker attempts still allowed

orchVars == <<isRunning, timers, calls, started, lastSync, dlq, events, faults>>

\* the library functions, each exercised on its own
VARIABLES
    retryState,     \* one call of retry(): its options, loop counter and history
    conflictCase,   \* one call of resolveConflict: its arguments and its result
    detectCase,     \* one call of detect: its arguments and its result
    addCalls,       \* calls of DeadLetterQueue.add made directly (SpecDlq)
    detectConflictsCase,  \* one call of ConflictResolver.detectConflicts
    opCheck,        \* the idempotency store and the last run's check of it (SpecIdem)
    gateRuns,       \* two overlapping runs of one worker at the idempotency gate
    pool,           \* the adapter's pooled connections and their session tag
    breaker,        \* one CircuitBreaker, the clock and its last execute call
    jobs            \* one InMemoryQueue and the calls of its handler

\* nothing of these is in use
NoGateRuns == [keys |-> {}, run |-> <<>>]
NoPool == [conn |-> <<>>, log |-> <<>>, left |-> 0]
NoBreaker == [state |-> "none"]
NoJobs == [queue |-> <<>>]

\* no key stored, no check made
NoOpCheck == [keys |-> {}, operationId |-> "", isProcessed |-> FALSE]

\* the unit variables of the library functions modelled first
libVars == <<retryState, conflictCase, detectCase, addCalls, detectConflictsCase,
             opCheck>>

unitVars == <<libVars, gateRuns, pool, breaker, jobs>>

vars == <<dataVars, orchVars, unitVars>>

(***************************************************************************)
(* Small helpers.                                                          *)
(***************************************************************************)
Last(s) == s[Len(s)]

RECURSIVE TrimBlank(_)
\* a range read omits trailing empty rows, and an append writes after the
\* last row that has data
TrimBlank(grid) ==
    IF Len(grid) > 1 /\ Last(grid) = BlankRow
    THEN TrimBlank(SubSeq(grid, 1, Len(grid) - 1))
    ELSE grid

(***************************************************************************)
(* Spreadsheet adapter.                                                    *)
(***************************************************************************)
\* a read that never sends If-None-Match
getRange_Unconditional(ifNoneMatch) ==
    [values |-> sheet, etag |-> sheetEtag, notModified |-> FALSE]

\* getRange(spreadsheetId, range, {ifNoneMatch}); ifNoneMatch = 0 is "none"
getRange(ifNoneMatch) ==
    IF ifNoneMatch # 0 /\ ifNoneMatch = sheetEtag
    THEN [values |-> <<>>, etag |-> ifNoneMatch, notModified |-> TRUE]
    ELSE [values |-> sheet, etag |-> sheetEtag, notModified |-> FALSE]

RECURSIVE batchUpdate(_, _)
\* updates: a sequence of [row |-> n, values |-> cells], range "Sheet1!A<n>"
batchUpdate(grid, updates) ==
    IF updates = <<>> THEN grid
    ELSE batchUpdate([grid EXCEPT ![Head(updates).row] = Head(updates).values],
                     Tail(updates))

appendRows(grid, rows) == TrimBlank(grid) \o rows

(***************************************************************************)
(* Workers' conversions between the grid and row objects.                  *)
(***************************************************************************)
convertSheetDataToRows(values) ==
    IF Len(values) = 0 THEN <<>>
    ELSE [i \in 1..(Len(values) - 1) |->
            [id |-> values[i + 1][1], name |-> values[i + 1][2]]]

\* the cells in the order of the sorted column letters A, B
convertRowToSheetFormat(row) == <<row.id, row.name>>

(***************************************************************************)
(* Change detector.                                                        *)
(***************************************************************************)
\* null and undefined (a column the row object lacks) as cell values
JsNull == "<js null>"
JsUndefined == "<js undefined>"

\* the number 1, as the driver returns an integer column; "1" is the string
Num1 == "<number 1>"

\* String(value) on the values that occur
String(value) == IF value = Num1 THEN "1" ELSE value

\* String.trim on the values that occur
trim(value) ==
    CASE value = " a" -> "a"
      [] value = "b " -> "b"
      [] OTHER -> value

\* a key that keeps every row
getPrimaryKeyValue_Any(row) == row.id

getPrimaryKeyValue(row) ==
    IF row.id \in {JsUndefined, JsNull, ""} THEN PkNull ELSE row.id

\* null and undefined equal each other and nothing else; primitives are
\* compared by their trimmed string form
valuesEqual(a, b) ==
    IF a \in {JsNull, JsUndefined} THEN b \in {JsNull, JsUndefined}
    ELSE IF b \in {JsNull, JsUndefined} THEN FALSE
    ELSE trim(a) = trim(b)

\* every column but the primary key
hasChanged(current, baseline) == ~valuesEqual(current.name, baseline.name)

HasKey(rows, key) ==
    \E j \in 1..Len(rows) : getPrimaryKeyValue(rows[j]) = key

\* Map.get after a loop of Map.set: the last row with the key
RowOfKey(rows, key) ==
    rows[CHOOSE j \in 1..Len(rows) :
            /\ getPrimaryKeyValue(rows[j]) = key
            /\ \A l \in (j + 1)..Len(rows) : getPrimaryKeyValue(rows[l]) # key]

RECURSIVE detectUpdates(_, _)
detectUpdates(current, baseline) ==
    IF current = <<>> THEN <<>>
    ELSE LET row == Head(current)
             key == getPrimaryKeyValue(row)
             rest == detectUpdates(Tail(current), baseline)
         IN IF /\ key # PkNull
               /\ HasKey(baseline, key)
               /\ hasChanged(row, RowOfKey(baseline, key))
            THEN <<[identifier |-> key, data |-> row]>> \o rest
            ELSE rest

RECURSIVE detectDeletes(_, _)
detectDeletes(baseline, current) ==
    IF baseline = <<>> THEN <<>>
    ELSE LET key == getPrimaryKeyValue(Head(baseline))
             rest == detectDeletes(Tail(baseline), current)
         IN IF key # PkNull /\ ~HasKey(current, key)
            THEN <<key>> \o rest
            ELSE rest

detect(current, baseline) ==
    [inserts |-> SelectSeq(current,
                    LAMBDA row : /\ getPrimaryKeyValue(row) # PkNull
                                 /\ ~HasKey(baseline, getPrimaryKeyValue(row))),
     updates |-> detectUpdates(current, baseline),
     deletes |-> detectDeletes(baseline, current)]

(***************************************************************************)
(* Target database: the table, its three AFTER-row triggers and the        *)
(* adapter.  A database value d is [rows, log, error, client]: the table,  *)
(* the change log, the error the last call raised, and (bookkeeping) which *)
(* client issues the statements.                                           *)
(***************************************************************************)
SqlNull == "<NULL>"
Undefined == [defined |-> FALSE, sourceTag |-> ""]
Metadata(tag) == [defined |-> TRUE, sourceTag |-> tag]

\* SET @sync_source_tag = ? runs only "if (metadata?.sourceTag)"
SessionTag(metadata) ==
    IF metadata.defined /\ metadata.sourceTag # ""
    THEN metadata.sourceTag
    ELSE SqlNull

\* the trigger body: COALESCE(@sync_source_tag, 'external'); changed_at is
\* the time of the statement, taken here at the resolution of one statement
Trigger(d, operation, key, name, sessionTag) ==
    [d EXCEPT !.log = Append(@,
        [id |-> Len(d.log) + 1,
         operation |-> operation,
         row_data |-> [id |-> key, name |-> name],
         source_tag |-> IF sessionTag = SqlNull THEN "external" ELSE sessionTag,
         changed_at |-> Len(d.log) + 1,
         processed |-> FALSE,
         by |-> d.client])]

\* INSERT ... ON DUPLICATE KEY UPDATE, as one SQL statement
SqlUpsert(d, data, sessionTag) ==
    IF d.rows[data.id] = NoRow
    THEN Trigger([d EXCEPT !.rows[data.id] = data.name],
                 "INSERT", data.id, data.name, sessionTag)
    ELSE Trigger([d EXCEPT !.rows[data.id] = data.name],
                 "UPDATE", data.id, data.name, sessionTag)

\* UPDATE t SET <data> WHERE id = <where.id>, as one SQL statement
SqlUpdate(d, data, where, sessionTag) ==
    IF d.rows[where.id] = NoRow THEN d
    ELSE Trigger([d EXCEPT !.rows = [[@ EXCEPT ![where.id] = NoRow]
                                        EXCEPT ![data.id] = data.name]],
                 "UPDATE", data.id, data.name, sessionTag)

\* DELETE FROM t WHERE id = <where.id>; the trigger keeps the key only
SqlDelete(d, where, sessionTag) ==
    IF d.rows[where.id] = NoRow THEN d
    ELSE Trigger([d EXCEPT !.rows[where.id] = NoRow],
                 "DELETE", where.id, "", sessionTag)

\* insert(tableName, data, metadata): escapeId(tableName) calls
\* tableName.replace, which raises a TypeError unless tableName is a string;
\* the tag is cleared in the finally block
AdapterInsert(d, tableName, data, metadata) ==
    IF tableName.type # "string"
    THEN [d EXCEPT !.error = TypeErrorMsg]
    ELSE SqlUpsert(d, data, SessionTag(metadata))

\* an update that leaves the session variable unset, to show that C1 depends
\* on the tag being set
AdapterUpdate_Untagged(d, data, where, metadata) ==
    SqlUpdate(d, data, where, SqlNull)

\* update(data, where, metadata)
AdapterUpdate(d, data, where, metadata) ==
    SqlUpdate(d, data, where, SessionTag(metadata))

\* delete(where, metadata)
AdapterDelete(d, where, metadata) ==
    SqlDelete(d, where, SessionTag(metadata))

\* select(): SELECT * FROM t, in primary-key order
AdapterSelect(rows) ==
    LET present == SelectSeq(KeyOrder, LAMBDA k : rows[k] # NoRow)
    IN [i \in 1..Len(present) |-> [id |-> present[i], name |-> rows[present[i]]]]

\* transaction(callback): BEGIN and COMMIT/ROLLBACK run on the connection
\* handed to the callback, while insert/update/delete each take their own
\* pooled connection (autocommit): what they wrote stays, also after ROLLBACK
transaction(before, after) == after

\* program constant: the T->S scan limit
ChangeLogLimit == 1000

\* a scan without the source_tag condition, to show that C2 depends on it
getChangeLog_Unfiltered(log, processed, excludeSourceTag, limit) ==
    LET hit == SelectSeq(log, LAMBDA e : e.processed = processed)
    IN SubSeq(hit, 1, IF Len(hit) < limit THEN Len(hit) ELSE limit)

\* a scan without the processed condition
getChangeLog_AnyFlag(log, processed, excludeSourceTag, limit) ==
    LET hit == SelectSeq(log, LAMBDA e : e.source_tag # excludeSourceTag)
    IN SubSeq(hit, 1, IF Len(hit) < limit THEN Len(hit) ELSE limit)

\* getChangeLog({processed, excludeSourceTag, limit}): ORDER BY changed_at ASC
getChangeLog(log, processed, excludeSourceTag, limit) ==
    LET hit == SelectSeq(log, LAMBDA e :
                   /\ e.processed = processed
                   /\ e.source_tag # excludeSourceTag)
    IN SubSeq(hit, 1, IF Len(hit) < limit THEN Len(hit) ELSE limit)

\* an UPDATE that sets processed = (id IN (ids)) on every entry
markChangesProcessed_Only(log, ids) ==
    [i \in 1..Len(log) |-> [log[i] EXCEPT !.processed = log[i].id \in ids]]

\* markChangesProcessed(ids): UPDATE ... SET processed = TRUE WHERE id IN (ids)
markChangesProcessed(log, ids) ==
    [i \in 1..Len(log) |->
        IF log[i].id \in ids THEN [log[i] EXCEPT !.processed = TRUE] ELSE log[i]]

(***************************************************************************)
(* Metadata store: sync_state and sync_history.                            *)
(***************************************************************************)
NullTime == "null"

\* an upsert that overwrites every column, NULLs included
upsertSyncState_Overwrite(cur, new) == new

\* INSERT ... ON CONFLICT DO UPDATE SET col = COALESCE(EXCLUDED.col, col);
\* a missing, empty or zero field arrives as NULL
upsertSyncState(cur, new) ==
    [last_sheet_sync_at |-> IF new.last_sheet_sync_at # NullTime
                            THEN new.last_sheet_sync_at ELSE cur.last_sheet_sync_at,
     last_db_sync_at |-> IF new.last_db_sync_at # NullTime
                         THEN new.last_db_sync_at ELSE cur.last_db_sync_at,
     sheet_etag |-> IF new.sheet_etag # 0 THEN new.sheet_etag ELSE cur.sheet_etag,
     db_last_change_id |-> IF new.db_last_change_id # 0
                           THEN new.db_last_change_id ELSE cur.db_last_change_id]

NoState ==
    [last_sheet_sync_at |-> NullTime, last_db_sync_at |-> NullTime,
     sheet_etag |-> 0, db_last_change_id |-> 0]

\* a history row that drops the error text
HistoryRow_NoText(status, rows, error) ==
    [status |-> status, rows_affected |-> rows, conflicts_detected |-> 0,
     error_message |-> NoError]

\* updateSyncHistory: the fields a worker sets when it finalizes its row
HistoryRow(status, rows, error) ==
    [status |-> status, rows_affected |-> rows, conflicts_detected |-> 0,
     error_message |-> error]

(***************************************************************************)
(* SheetToDbWorker.                                                        *)
(***************************************************************************)
\* ConflictResolver.resolveConflict and its strategies: the values of
\* ConflictStrategy, and one that is none of them
ConflictStrategies == {"last_write_wins", "sheet_wins", "db_wins", "manual"}
UnknownStrategy == "newest"

\* resolveLWW: "sheetTimestamp > dbTimestamp ? 'sheet' : 'db'"
resolveLWW(conflict) ==
    LET winner == IF conflict.sheetTimestamp > conflict.dbTimestamp
                  THEN "sheet" ELSE "db"
    IN [rowId |-> conflict.rowId,
        winner |-> winner,
        resolvedValue |-> IF winner = "sheet" THEN conflict.sheetValue
                          ELSE conflict.dbValue,
        strategy |-> "last_write_wins"]

resolveSheetWins(conflict) ==
    [rowId |-> conflict.rowId, winner |-> "sheet",
     resolvedValue |-> conflict.sheetValue, strategy |-> "sheet_wins"]

resolveDbWins(conflict) ==
    [rowId |-> conflict.rowId, winner |-> "db",
     resolvedValue |-> conflict.dbValue, strategy |-> "db_wins"]

resolveManual(conflict) ==
    [rowId |-> conflict.rowId, winner |-> "manual",
     resolvedValue |-> "<null>", strategy |-> "manual"]

\* resolveConflict: the switch on the strategy, its default being LWW
resolveConflict(conflict, strategy) ==
    CASE strategy = "last_write_wins" -> resolveLWW(conflict)
      [] strategy = "sheet_wins" -> resolveSheetWins(conflict)
      [] strategy = "db_wins" -> resolveDbWins(conflict)
      [] strategy = "manual" -> resolveManual(conflict)
      [] OTHER -> resolveLWW(conflict)

\* detectConflicts(changes, lastDbSyncAt): "return []"
detectConflicts(changes, lastDbSyncAt) == <<>>

\* the config's conflict_strategy; the column defaults to 'last_write_wins'
conflict_strategy == "last_write_wins"

\* steps 9 and 10 of execute(): the rows with a resolved conflict leave the
\* change set, and each conflict won by the sheet with a value to write
\* comes back as an update
changesToApply(changes, resolvedConflicts) ==
    LET conflictedRowIds ==
            {resolvedConflicts[j].rowId : j \in 1..Len(resolvedConflicts)}
        won == SelectSeq(resolvedConflicts, LAMBDA r :
                   r.winner = "sheet" /\ r.resolvedValue # "<null>")
    IN [inserts |-> SelectSeq(changes.inserts,
                        LAMBDA row : row.id \notin conflictedRowIds),
        updates |-> SelectSeq(changes.updates,
                        LAMBDA u : u.identifier \notin conflictedRowIds)
                    \o [j \in 1..Len(won) |->
                          [identifier |-> won[j].rowId,
                           data |-> won[j].resolvedValue]],
        deletes |-> SelectSeq(changes.deletes,
                        LAMBDA id : id \notin conflictedRowIds)]

\* what the worker passes as the first argument of insert: the row object
RowObject == [type |-> "object"]

\* the loops of the transaction callback; t is [d, rowsAffected], and an
\* exception (t.d.error) ends the callback
RECURSIVE applyInserts(_, _)
applyInserts(t, inserts) ==
    IF inserts = <<>> \/ t.d.error # NoError THEN t
    ELSE LET d1 == AdapterInsert(t.d, RowObject, Metadata("from_sheet"), Undefined)
         IN applyInserts([d |-> d1,
                          rowsAffected |-> IF d1.error = NoError
                                           THEN t.rowsAffected + 1
                                           ELSE t.rowsAffected],
                         Tail(inserts))

RECURSIVE applyUpdates(_, _)
applyUpdates(t, updates) ==
    IF updates = <<>> \/ t.d.error # NoError THEN t
    ELSE LET d1 == AdapterUpdate(t.d, Head(updates).data,
                                 [id |-> Head(updates).identifier],
                                 Metadata("from_sheet"))
         IN applyUpdates([d |-> d1, rowsAffected |-> t.rowsAffected + 1],
                         Tail(updates))

RECURSIVE applyDeletes(_, _)
applyDeletes(t, deletes) ==
    IF deletes = <<>> \/ t.d.error # NoError THEN t
    ELSE LET d1 == AdapterDelete(t.d, [id |-> Head(deletes)], Metadata("from_sheet"))
         IN applyDeletes([d |-> d1, rowsAffected |-> t.rowsAffected + 1],
                         Tail(deletes))

\* execute() of a worker whose config carries the given conflict strategy:
\* the outcome of one run on the current state.  The operation id is a fresh
\* uuid, which the idempotency store has never seen.
SheetToDbExecuteWith(strategy) ==
    LET sheetData == getRange(syncState.sheet_etag)
        sheetRows == convertSheetDataToRows(sheetData.values)
        dbRows == AdapterSelect(db)
        changes == detect(sheetRows, dbRows)
        conflicts == detectConflicts(changes, syncState.last_db_sync_at)
        resolvedConflicts ==
            [j \in 1..Len(conflicts) |->
                resolveConflict(conflicts[j], strategy)]
        toApply == changesToApply(changes, resolvedConflicts)
        d0 == [rows |-> db, log |-> changeLog, error |-> NoError,
               client |-> "sheet_to_db"]
        t0 == [d |-> d0, rowsAffected |-> 0]
        t3 == applyDeletes(applyUpdates(applyInserts(t0, toApply.inserts),
                                        toApply.updates),
                           toApply.deletes)
        after == transaction(d0, t3.d)
        same == [db |-> db, changeLog |-> changeLog, syncState |-> syncState]
    IN IF sheetData.notModified
       THEN same @@ [outcome |-> "not_modified",
                     history |-> HistoryRow("success", 0, NoError)]
       ELSE IF /\ Len(changes.inserts) = 0
               /\ Len(changes.updates) = 0
               /\ Len(changes.deletes) = 0
       THEN same @@ [outcome |-> "no_changes",
                     history |-> HistoryRow("success", 0, NoError)]
       ELSE IF t3.d.error # NoError
       THEN [db |-> after.rows, changeLog |-> after.log, syncState |-> syncState,
             outcome |-> "failed",
             history |-> HistoryRow("failed", 0, t3.d.error)]
       ELSE [db |-> after.rows, changeLog |-> after.log,
             syncState |-> upsertSyncState(syncState,
                               [NoState EXCEPT !.last_sheet_sync_at = "recent",
                                               !.sheet_etag = sheetData.etag]),
             outcome |-> "applied",
             history |-> [HistoryRow("success", t3.rowsAffected, NoError)
                             EXCEPT !.conflicts_detected = Len(resolvedConflicts)]]

\* execute() for the config at hand
SheetToDbExecute == SheetToDbExecuteWith(conflict_strategy)

(***************************************************************************)
(* DbToSheetWorker.                                                        *)
(***************************************************************************)
\* sheetRowMap: String(rowId) -> {index: i + 1}, the last row with the key;
\* sheetRows[j] here is sheetRows[i] there with j = i + 1
sheetRowMapHas(sheetRows, rowId) ==
    \E j \in 1..Len(sheetRows) : sheetRows[j].id = rowId

sheetRowMapIndex(sheetRows, rowId) ==
    CHOOSE j \in 1..Len(sheetRows) :
        /\ sheetRows[j].id = rowId
        /\ \A l \in (j + 1)..Len(sheetRows) : sheetRows[l].id # rowId

\* a range one row too high, to show that C6 depends on the row addressed
rangeOf_RowAbove(index) == index

\* the range "A<index + 1>" of an existing row
rangeOf(index) == index + 1

RECURSIVE buildBatchUpdates(_, _)
buildBatchUpdates(entries, sheetRows) ==
    IF entries = <<>> THEN <<>>
    ELSE LET entry == Head(entries)
             rowId == entry.row_data.id
             rest == buildBatchUpdates(Tail(entries), sheetRows)
         IN IF rowId = "" THEN rest
            ELSE IF entry.operation = "UPDATE" /\ sheetRowMapHas(sheetRows, rowId)
            THEN <<[row |-> rangeOf(sheetRowMapIndex(sheetRows, rowId)),
                    values |-> convertRowToSheetFormat(entry.row_data)]>> \o rest
            ELSE IF entry.operation = "DELETE" /\ sheetRowMapHas(sheetRows, rowId)
            THEN <<[row |-> rangeOf(sheetRowMapIndex(sheetRows, rowId)),
                    values |-> BlankRow]>> \o rest
            ELSE rest

RECURSIVE buildRowsToAppend(_, _)
buildRowsToAppend(entries, sheetRows) ==
    IF entries = <<>> THEN <<>>
    ELSE LET entry == Head(entries)
             rowId == entry.row_data.id
             rest == buildRowsToAppend(Tail(entries), sheetRows)
         IN IF rowId = "" THEN rest
            ELSE IF entry.operation = "INSERT"
            THEN <<convertRowToSheetFormat(entry.row_data)>> \o rest
            ELSE IF entry.operation = "UPDATE" /\ ~sheetRowMapHas(sheetRows, rowId)
            THEN <<convertRowToSheetFormat(entry.row_data)>> \o rest
            ELSE rest

\* execute() with the scan limited to `limit` entries: the outcome of one
\* run on the current state
DbToSheetExecuteLimit(limit) ==
    LET changeLogEntries == getChangeLog(changeLog, FALSE, "from_sheet", limit)
        sheetData == getRange(0)
        sheetRows == convertSheetDataToRows(sheetData.values)
        batchUpdates == buildBatchUpdates(changeLogEntries, sheetRows)
        rowsToAppend == buildRowsToAppend(changeLogEntries, sheetRows)
        sheet1 == IF Len(batchUpdates) > 0 THEN batchUpdate(sheet, batchUpdates)
                  ELSE sheet
        sheet2 == IF Len(rowsToAppend) > 0 THEN appendRows(sheet1, rowsToAppend)
                  ELSE sheet1
        writeCalls == (IF Len(batchUpdates) > 0 THEN 1 ELSE 0)
                      + (IF Len(rowsToAppend) > 0 THEN 1 ELSE 0)
        changeLogIds == {changeLogEntries[i].id : i \in 1..Len(changeLogEntries)}
    IN IF Len(changeLogEntries) = 0
       THEN [sheet |-> sheet, sheetEtag |-> sheetEtag, changeLog |-> changeLog,
             syncState |-> syncState, consumed |-> {}, outcome |-> "no_changes",
             history |-> HistoryRow("success", 0, NoError)]
       ELSE [sheet |-> TrimBlank(sheet2),
             sheetEtag |-> sheetEtag + writeCalls,
             changeLog |-> markChangesProcessed(changeLog, changeLogIds),
             syncState |-> upsertSyncState(syncState,
                               [NoState EXCEPT !.last_db_sync_at = "recent",
                                               !.db_last_change_id =
                                                   Last(changeLogEntries).id]),
             consumed |-> changeLogIds,
             outcome |-> "applied",
             history |-> HistoryRow("success",
                                    Len(batchUpdates) + Len(rowsToAppend), NoError)]

\* execute()
DbToSheetExecute == DbToSheetExecuteLimit(ChangeLogLimit)

(***************************************************************************)
(* One sync configuration, its two stores and the external writers.        *)
(***************************************************************************)
\* the data rows a spreadsheet can start with: one row per key at most
InitRows ==
    {<<>>}
    \cup {<<<<k, v>>>> : k \in Keys, v \in Vals}
    \cup {r \in {<<<<k1, v1>>, <<k2, v2>>>> :
                    k1 \in Keys, k2 \in Keys, v1 \in Vals, v2 \in Vals} :
            r[1][1] # r[2][1]}

NoHistory == HistoryRow("none", 0, NoError)

\* the rows of sync_configs
SyncConfigs ==
    <<[id |-> "c1", is_active |-> TRUE],
      [id |-> "c3", is_active |-> FALSE],
      [id |-> "c2", is_active |-> TRUE]>>

\* getAllSyncConfigs(activeOnly): "WHERE is_active = true" when activeOnly
getAllSyncConfigs(activeOnly) ==
    LET rows == SelectSeq(SyncConfigs, LAMBDA c : ~activeOnly \/ c.is_active)
    IN [j \in 1..Len(rows) |-> rows[j].id]

\* the sync configurations a cycle works through
Configs == getAllSyncConfigs(TRUE)
ConfigIds == {Configs[i] : i \in 1..Len(Configs)}

\* a call slot not in use
NoCall ==
    [kind |-> "none", todo |-> <<>>, stage |-> "end", run |-> FALSE,
     attempt |-> 0, sheetSyncNeeded |-> FALSE, dbSyncNeeded |-> FALSE,
     s2t |-> "none", failures |-> 0]

\* no call of retry() under way
NoRetry ==
    [maxAttempts |-> 0, classifier |-> FALSE, attempt |-> 0, pc |-> "none",
     outcomes |-> <<>>, lastError |-> 0, sleeps |-> 0,
     result |-> "<undefined>", thrown |-> [at |-> 0, message |-> "<undefined>"]]

\* no call of resolveConflict under way
NoResolved ==
    [rowId |-> "", winner |-> "none", resolvedValue |-> "<null>", strategy |-> ""]

NoConflictCase ==
    [phase |-> "none",
     conflict |-> [rowId |-> "", sheetValue |-> "", dbValue |-> "",
                   sheetTimestamp |-> 0, dbTimestamp |-> 0],
     strategy |-> "",
     resolved |-> NoResolved]

\* no call of detect under way
NoDetectCase ==
    [phase |-> "none", current |-> <<>>, baseline |-> <<>>,
     result |-> [inserts |-> <<>>, updates |-> <<>>, deletes |-> <<>>]]

NoConflictsCase ==
    [phase |-> "none", sheetChanges |-> <<>>, dbChanges |-> <<>>,
     lastSyncTime |-> 0, result |-> <<>>]

\* the library functions are not being exercised
UnitIdle ==
    /\ retryState = NoRetry
    /\ conflictCase = NoConflictCase
    /\ detectCase = NoDetectCase
    /\ addCalls = 0
    /\ detectConflictsCase = NoConflictsCase
    /\ opCheck = NoOpCheck
    /\ gateRuns = NoGateRuns
    /\ pool = NoPool
    /\ breaker = NoBreaker
    /\ jobs = NoJobs

\* the library functions modelled first are not being exercised
LibIdle ==
    /\ retryState = NoRetry
    /\ conflictCase = NoConflictCase
    /\ detectCase = NoDetectCase
    /\ addCalls = 0
    /\ detectConflictsCase = NoConflictsCase
    /\ opCheck = NoOpCheck

\* the orchestrator after construction, with nothing ever synced
OrchInit ==
    /\ isRunning = FALSE
    /\ timers = 0
    /\ calls = [i \in 1..MaxCycles |-> NoCall]
    /\ started = 0
    /\ lastSync = [c \in ConfigIds |->
                      [last_sheet_sync_at |-> NullTime, last_db_sync_at |-> NullTime]]
    /\ dlq = <<>>
    /\ events = <<>>
    /\ faults = MaxFaults

Init ==
    /\ OrchInit
    /\ UnitIdle
    /\ \E rows \in {r \in InitRows : Len(r) <= MaxInitRows} :
           sheet = <<Header>> \o rows
    /\ sheetEtag = 1
    /\ db \in [Keys -> Vals \cup {NoRow}]
    /\ changeLog = <<>>
    /\ syncState = NoState
    /\ history = [sheet_to_db |-> NoHistory, db_to_sheet |-> NoHistory]
    /\ pc = "idle"
    /\ dbSyncNeeded = FALSE
    /\ extLeft = MaxExternal
    /\ consumed = {}
    /\ loop = [quiet |-> FALSE, cycle |-> "none"]
    /\ streak = [s2t |-> FALSE, t2s |-> FALSE]

\* a check that finds every direction due
syncNeeded_Always(last) == TRUE

\* "!last || now - last >= sync_interval_seconds * 1000"
syncNeeded(last) == last = NullTime \/ last = "due"

\* bookkeeping at the end of a syncConfigWithRetry call
EndCycle(l) == [quiet |-> l.cycle # "tainted", cycle |-> "none"]

\* bookkeeping at an external write
Disturb(l) ==
    [quiet |-> FALSE, cycle |-> IF l.cycle = "none" THEN "none" ELSE "tainted"]

\* syncConfigWithRetry up to the first worker: reads SyncState and decides
\* which directions are due; returns when none is
syncConfigWithRetry ==
    /\ pc = "idle"
    /\ \/ syncNeeded(syncState.last_sheet_sync_at)
       \/ syncNeeded(syncState.last_db_sync_at)
    /\ pc' = IF syncNeeded(syncState.last_sheet_sync_at)
             THEN "sheet_to_db" ELSE "db_to_sheet"
    /\ dbSyncNeeded' = syncNeeded(syncState.last_db_sync_at)
    /\ loop' = [loop EXCEPT !.cycle = IF loop.quiet THEN "later" ELSE "first"]
    /\ UNCHANGED <<sheet, sheetEtag, db, changeLog, syncState, history,
                   extLeft, consumed, streak>>
    /\ UNCHANGED <<orchVars, unitVars>>

\* executeWithRetry('sheet_to_db', ...): the only error a run raises here is
\* the TypeError, which isRetryableError does not match, so one attempt is
\* made; the error skips the T->S half of the cycle
RunSheetToDb ==
    /\ pc = "sheet_to_db"
    /\ LET r == SheetToDbExecute
           next == IF r.outcome # "failed" /\ dbSyncNeeded
                   THEN "db_to_sheet" ELSE "idle"
           wrote == r.changeLog # changeLog
       IN /\ db' = r.db
          /\ changeLog' = r.changeLog
          /\ syncState' = r.syncState
          /\ history' = [history EXCEPT !.sheet_to_db = r.history]
          /\ pc' = next
          /\ loop' = IF next = "idle" THEN EndCycle(loop) ELSE loop
          /\ streak' = [s2t |-> TRUE, t2s |-> streak.t2s /\ ~wrote]
    /\ UNCHANGED <<sheet, sheetEtag, dbSyncNeeded, extLeft, consumed>>
    /\ UNCHANGED <<orchVars, unitVars>>

\* executeWithRetry('db_to_sheet', ...)
RunDbToSheet ==
    /\ pc = "db_to_sheet"
    /\ LET r == DbToSheetExecute
           wrote == r.sheet # sheet
       IN /\ sheet' = r.sheet
          /\ sheetEtag' = r.sheetEtag
          /\ changeLog' = r.changeLog
          /\ syncState' = r.syncState
          /\ history' = [history EXCEPT !.db_to_sheet = r.history]
          /\ consumed' = consumed \cup r.consumed
          /\ streak' = [s2t |-> streak.s2t /\ ~wrote, t2s |-> TRUE]
    /\ pc' = "idle"
    /\ loop' = EndCycle(loop)
    /\ UNCHANGED <<db, dbSyncNeeded, extLeft>>
    /\ UNCHANGED <<orchVars, unitVars>>

\* the sync interval elapses: every stored timestamp is now old enough
TimePasses ==
    /\ \/ syncState.last_sheet_sync_at = "recent"
       \/ syncState.last_db_sync_at = "recent"
    /\ syncState' =
          [syncState EXCEPT
              !.last_sheet_sync_at = IF @ = "recent" THEN "due" ELSE @,
              !.last_db_sync_at = IF @ = "recent" THEN "due" ELSE @]
    /\ UNCHANGED <<sheet, sheetEtag, db, changeLog, history, pc, dbSyncNeeded,
                   extLeft, consumed, loop, streak>>
    /\ UNCHANGED <<orchVars, unitVars>>

\* a user edits the spreadsheet: changes a value, adds a row with a new key,
\* or clears a row
ExternalSheetWrite ==
    /\ extLeft > 0
    /\ \/ \E n \in 2..Len(sheet), v \in Vals :
             /\ sheet[n] # BlankRow
             /\ sheet[n][2] # v
             /\ sheet' = [sheet EXCEPT ![n][2] = v]
       \/ \E k \in Keys, v \in Vals :
             /\ \A n \in 2..Len(sheet) : sheet[n][1] # k
             /\ sheet' = appendRows(sheet, <<<<k, v>>>>)
       \/ \E n \in 2..Len(sheet) :
             /\ sheet[n] # BlankRow
             /\ sheet' = TrimBlank([sheet EXCEPT ![n] = BlankRow])
    /\ sheetEtag' = sheetEtag + 1
    /\ extLeft' = extLeft - 1
    /\ loop' = Disturb(loop)
    /\ streak' = [streak EXCEPT !.s2t = FALSE]
    /\ UNCHANGED <<db, changeLog, syncState, history, pc, dbSyncNeeded, consumed>>
    /\ UNCHANGED <<orchVars, unitVars>>

\* another database client writes the table on its own connection, on which
\* @sync_source_tag is NULL
ExternalDbWrite ==
    /\ extLeft > 0
    /\ LET d0 == [rows |-> db, log |-> changeLog, error |-> NoError,
                  client |-> "external"]
       IN \E k \in Keys :
            \E d1 \in
                (IF db[k] = NoRow
                 THEN {SqlUpsert(d0, [id |-> k, name |-> v], SqlNull) : v \in Vals}
                 ELSE {SqlUpdate(d0, [id |-> k, name |-> v], [id |-> k], SqlNull) :
                          v \in Vals \ {db[k]}}
                      \cup {SqlDelete(d0, [id |-> k], SqlNull)}) :
                /\ db' = d1.rows
                /\ changeLog' = d1.log
    /\ extLeft' = extLeft - 1
    /\ loop' = Disturb(loop)
    /\ streak' = [s2t |-> FALSE, t2s |-> FALSE]
    /\ UNCHANGED <<sheet, sheetEtag, syncState, history, pc, dbSyncNeeded, consumed>>
    /\ UNCHANGED <<orchVars, unitVars>>

Next ==
    \/ syncConfigWithRetry
    \/ RunSheetToDb
    \/ RunDbToSheet
    \/ TimePasses
    \/ ExternalSheetWrite
    \/ ExternalDbWrite

Spec == Init /\ [][Next]_vars

\* Spec with the scheduling of the periodic driver: the interval keeps
\* elapsing, every tick calls syncConfigWithRetry, and a worker that was
\* started runs to its end (a worker step is enabled exactly while pc names
\* the worker, and always leaves it)
SpecLive ==
    /\ Init
    /\ [][Next]_vars
    /\ WF_vars(syncConfigWithRetry)
    /\ WF_vars(TimePasses)
    /\ []<>(pc # "sheet_to_db")
    /\ []<>(pc # "db_to_sheet")

(***************************************************************************)
(* Properties of the write tag.                                            *)
(***************************************************************************)
\* C1: every change-log entry produced by a write of the S->T worker on the
\* target table carries source_tag 'from_sheet'
C1_WorkerWritesTagged ==
    \A i \in 1..Len(changeLog) :
        changeLog[i].by = "sheet_to_db" => changeLog[i].source_tag = "from_sheet"

\* the S->T worker has logged an UPDATE and a DELETE
C1_Witness ==
    /\ \E i \in 1..Len(changeLog) :
          changeLog[i].by = "sheet_to_db" /\ changeLog[i].operation = "UPDATE"
    /\ \E i \in 1..Len(changeLog) :
          changeLog[i].by = "sheet_to_db" /\ changeLog[i].operation = "DELETE"

\* C2: an entry tagged 'from_sheet' is never consumed by the T->S worker: no
\* T->S run has written it out, and its processed flag is still false
C2_FromSheetNeverConsumed ==
    \A i \in 1..Len(changeLog) :
        changeLog[i].source_tag = "from_sheet" =>
            /\ ~changeLog[i].processed
            /\ changeLog[i].id \notin consumed

\* a T->S run consumed an entry logged after one tagged 'from_sheet'
C2_Witness ==
    \E i \in 1..Len(changeLog), j \in 1..Len(changeLog) :
        /\ i < j
        /\ changeLog[i].source_tag = "from_sheet"
        /\ changeLog[j].id \in consumed
        /\ changeLog[j].processed

(***************************************************************************)
(* Properties of cycles and runs.                                          *)
(***************************************************************************)
\* the step is a complete run of the S->T worker, resp. of the T->S worker
SheetToDbRan == pc = "sheet_to_db" /\ pc' # "sheet_to_db"
DbToSheetRan == pc = "db_to_sheet" /\ pc' # "db_to_sheet"

\* C3: loop-freeness: in a sequence of cycles with no external write, every
\* cycle after the first is a no-op in both directions: rowsAffected = 0, no
\* target-table write, no spreadsheet write
C3_LoopFree ==
    [][(loop.cycle = "later" /\ (SheetToDbRan \/ DbToSheetRan)) =>
          /\ db' = db
          /\ changeLog' = changeLog
          /\ sheet' = sheet
          /\ history'[pc].rows_affected = 0]_vars

\* every key present in both stores has a spreadsheet row equal to the table row
Agree ==
    \A k \in Keys :
        (db[k] # NoRow /\ \E n \in 2..Len(sheet) : sheet[n][1] = k) =>
            \E n \in 2..Len(sheet) : sheet[n] = <<k, db[k]>>

\* C4: convergence: once the external writes have stopped, the cycles reach a
\* state in which the two stores agree on every key present in both, and
\* agreement is kept from then on
C4_Convergence == <>[]Agree

\* C5: idempotency of a run: a second S->T run in a row on unchanged
\* spreadsheet content leaves the target rows as the first left them, and a
\* second T->S run in a row with no new table write leaves the spreadsheet
\* as the first left it
C5_RunIdempotent ==
    [][/\ (SheetToDbRan /\ streak.s2t) => db' = db
       /\ (DbToSheetRan /\ streak.t2s) => sheet' = sheet]_vars

\* the pending entry i is the last one a T->S run will consume for its key
LastPendingForKey(i) ==
    /\ ~changeLog[i].processed
    /\ changeLog[i].source_tag # "from_sheet"
    /\ \A j \in (i + 1)..Len(changeLog) :
          (~changeLog[j].processed /\ changeLog[j].source_tag # "from_sheet")
              => changeLog[j].row_data.id # changeLog[i].row_data.id

MaxAttempts == 5
DlqMaxSize == 1000

\* the errors a worker execution can raise: a network timeout, and the
\* TypeError of the adapter
WorkerErrors == {"connect ETIMEDOUT", TypeErrorMsg}

\* String.toLowerCase on the messages that occur
toLowerCase(message) ==
    CASE message = "connect ETIMEDOUT" -> "connect etimedout"
      [] message = "Rate limit exceeded" -> "rate limit exceeded"
      [] message = "Lock wait timeout exceeded; try restarting transaction"
            -> "lock wait timeout exceeded; try restarting transaction"
      [] message = "The caller does not have permission"
            -> "the caller does not have permission"
      [] OTHER -> message

\* the substrings isRetryableError looks for
RetryMarkers ==
    {"econnrefused", "etimedout", "enotfound", "network",
     "rate limit", "too many requests", "503", "429"}

\* String.includes on the messages that occur
includes(message, marker) ==
    <<message, marker>> \in {<<"connect etimedout", "etimedout">>,
                             <<"rate limit exceeded", "rate limit">>}

\* isRetryableError: the lower-cased message contains one of the markers
isRetryableError(message) ==
    \E marker \in RetryMarkers : includes(toLowerCase(message), marker)

\* retry(): what follows a failed attempt, attemptsMade counting it
retryNext(attemptsMade, message) ==
    IF ~isRetryableError(message) THEN "throw"
    ELSE IF attemptsMade < MaxAttempts THEN "sleep"
    ELSE "throw"

\* an add that never evicts
dlqAdd_Unbounded(entries, entry) == Append(entries, entry)

\* DeadLetterQueue.add
dlqAdd(entries, entry) ==
    IF Len(entries) + 1 > DlqMaxSize
    THEN Tail(Append(entries, entry))
    ELSE Append(entries, entry)

\* the entry executeWithRetry builds in its catch block
dlqEntry(configId, direction, message) ==
    [configId |-> configId, direction |-> direction, error |-> message,
     attemptsMade |-> 5,
     failureReason |-> IF isRetryableError(message) THEN "max_retries"
                       ELSE "non_retryable_error"]

\* syncConfigWithRetry after its first executeWithRetry returned: the second
\* one is awaited next, if due
afterSheetToDb(call) ==
    IF call.dbSyncNeeded
    THEN [call EXCEPT !.stage = "db_to_sheet", !.attempt = 0, !.s2t = "finished"]
    ELSE [call EXCEPT !.stage = "decide", !.todo = Tail(@), !.attempt = 0,
                      !.s2t = "finished"]

\* a failure that ends the whole cycle, to show that C9 depends on the catch
\* block of syncConfigWithRetry
afterFailure_AbortCycle(call) ==
    [call EXCEPT !.stage = "decide", !.todo = <<>>, !.attempt = 0,
                 !.failures = @ + 1]

\* a failure of the first worker after which the second one is still run
afterFailure_GoOn(call) ==
    IF call.stage = "sheet_to_db" /\ call.dbSyncNeeded
    THEN [call EXCEPT !.stage = "db_to_sheet", !.attempt = 0, !.failures = @ + 1]
    ELSE [call EXCEPT !.stage = "decide", !.todo = Tail(@), !.attempt = 0,
                      !.failures = @ + 1]

\* syncConfigWithRetry's catch block logs the error and returns, and the
\* loop of syncCycle goes on to the next config
afterFailure(call) ==
    [call EXCEPT !.stage = "decide", !.todo = Tail(@), !.attempt = 0,
                 !.failures = @ + 1]

\* the two directions swapped, to show that C7 depends on their order
firstWorker_TableFirst(sheetDue, dbDue) ==
    IF dbDue THEN "db_to_sheet" ELSE "sheet_to_db"

\* syncConfigWithRetry: "if (sheetSyncNeeded) ..." comes before
\* "if (dbSyncNeeded) ..."
firstWorker(sheetDue, dbDue) ==
    IF sheetDue THEN "sheet_to_db" ELSE "db_to_sheet"

NewCall(kind, todo) ==
    [NoCall EXCEPT !.kind = kind, !.todo = todo, !.stage = "decide"]

\* start(): returns at once when already running; else runs a first cycle
start ==
    /\ ~isRunning
    /\ started < MaxCycles
    /\ isRunning' = TRUE
    /\ started' = started + 1
    /\ calls' = [calls EXCEPT ![started + 1] = NewCall("start", Configs)]
    /\ UNCHANGED <<timers, lastSync, dlq, events, faults>>
    /\ UNCHANGED <<dataVars, unitVars>>

\* stop()
stop ==
    /\ isRunning
    /\ isRunning' = FALSE
    /\ UNCHANGED <<timers, calls, started, lastSync, dlq, events, faults>>
    /\ UNCHANGED <<dataVars, unitVars>>

\* a timer fires: "if (this.isRunning) await this.syncCycle()", whether or
\* not an earlier callback is still awaiting its cycle
tick ==
    /\ timers > 0
    /\ isRunning
    /\ started < MaxCycles
    /\ started' = started + 1
    /\ calls' = [calls EXCEPT ![started + 1] = NewCall("tick", Configs)]
    /\ UNCHANGED <<isRunning, timers, lastSync, dlq, events, faults>>
    /\ UNCHANGED <<dataVars, unitVars>>

\* triggerManualSync(configId) / triggerImmediateSync(config)
triggerManualSync ==
    /\ started < MaxCycles
    /\ \E c \in ConfigIds :
          calls' = [calls EXCEPT ![started + 1] = NewCall("manual", <<c>>)]
    /\ started' = started + 1
    /\ UNCHANGED <<isRunning, timers, lastSync, dlq, events, faults>>
    /\ UNCHANGED <<dataVars, unitVars>>

\* syncConfigWithRetry up to the first worker, for the next config of a call
decideSync ==
    /\ \E i \in 1..MaxCycles :
          /\ calls[i].stage = "decide"
          /\ calls[i].todo # <<>>
          /\ LET c == Head(calls[i].todo)
                 sheetDue == syncNeeded(lastSync[c].last_sheet_sync_at)
                 dbDue == syncNeeded(lastSync[c].last_db_sync_at)
             IN calls' = [calls EXCEPT ![i] =
                    IF ~sheetDue /\ ~dbDue
                    THEN [@ EXCEPT !.todo = Tail(@)]
                    ELSE [@ EXCEPT !.stage = firstWorker(sheetDue, dbDue),
                                   !.sheetSyncNeeded = sheetDue,
                                   !.dbSyncNeeded = dbDue,
                                   !.attempt = 0,
                                   !.s2t = "none"]]
    /\ UNCHANGED <<isRunning, timers, started, lastSync, dlq, events, faults>>
    /\ UNCHANGED <<dataVars, unitVars>>

\* the call returns; start() then creates its interval timer
callReturns ==
    /\ \E i \in 1..MaxCycles :
          /\ calls[i].stage = "decide"
          /\ calls[i].todo = <<>>
          /\ calls' = [calls EXCEPT ![i] = [NoCall EXCEPT !.kind = "returned"]]
          /\ timers' = IF calls[i].kind = "start" THEN timers + 1 ELSE timers
    /\ UNCHANGED <<isRunning, started, lastSync, dlq, events, faults>>
    /\ UNCHANGED <<dataVars, unitVars>>

\* the stamp a successful run leaves: "now" when it applied changes, the old
\* value when it found nothing to do
stampAfter(old) == {old, "recent"}

stampField(direction) ==
    IF direction = "sheet_to_db" THEN "last_sheet_sync_at" ELSE "last_db_sync_at"

\* retry() calls the worker: an attempt begins
workerStarts ==
    /\ \E i \in 1..MaxCycles :
          /\ calls[i].stage \in {"sheet_to_db", "db_to_sheet"}
          /\ ~calls[i].run
          /\ calls' = [calls EXCEPT ![i] =
                 [@ EXCEPT !.run = TRUE,
                           !.attempt = @ + 1,
                           !.s2t = IF calls[i].stage = "sheet_to_db"
                                   THEN "started" ELSE @]]
    /\ UNCHANGED <<isRunning, timers, started, lastSync, dlq, events, faults>>
    /\ UNCHANGED <<dataVars, unitVars>>

\* worker.execute() returns: history is finalized as success; neither the
\* worker nor the orchestrator hands anything to the event sink
workerSucceeds ==
    /\ \E i \in 1..MaxCycles :
          /\ calls[i].run
          /\ LET c == Head(calls[i].todo)
                 direction == calls[i].stage
                 done == [calls[i] EXCEPT !.run = FALSE]
             IN /\ \E stamp \in stampAfter(lastSync[c][stampField(direction)]) :
                      lastSync' = [lastSync EXCEPT ![c][stampField(direction)] = stamp]
                /\ calls' = [calls EXCEPT ![i] =
                       IF direction = "sheet_to_db"
                       THEN afterSheetToDb(done)
                       ELSE [done EXCEPT !.stage = "decide", !.todo = Tail(@),
                                         !.attempt = 0]]
    /\ UNCHANGED <<isRunning, timers, started, dlq, events, faults>>
    /\ UNCHANGED <<dataVars, unitVars>>

\* worker.execute() throws: history is finalized as failed; retry() sleeps
\* and tries again, or throws, and then executeWithRetry adds the job to the
\* dead-letter queue and re-throws to syncConfigWithRetry
workerFails ==
    /\ faults > 0
    /\ \E i \in 1..MaxCycles, message \in WorkerErrors :
          /\ calls[i].run
          /\ LET c == Head(calls[i].todo)
                 direction == calls[i].stage
                 done == [calls[i] EXCEPT !.run = FALSE]
             IN IF retryNext(calls[i].attempt, message) = "sleep"
                THEN /\ calls' = [calls EXCEPT ![i] = done]
                     /\ dlq' = dlq
                ELSE /\ calls' = [calls EXCEPT ![i] = afterFailure(done)]
                     /\ dlq' = dlqAdd(dlq, dlqEntry(c, direction, message))
    /\ faults' = faults - 1
    /\ UNCHANGED <<isRunning, timers, started, lastSync, events>>
    /\ UNCHANGED <<dataVars, unitVars>>

\* the sync interval elapses for every config
intervalElapses ==
    /\ \E c \in ConfigIds :
          \/ lastSync[c].last_sheet_sync_at = "recent"
          \/ lastSync[c].last_db_sync_at = "recent"
    /\ lastSync' = [c \in ConfigIds |->
          [last_sheet_sync_at |-> IF lastSync[c].last_sheet_sync_at = "recent"
                                  THEN "due" ELSE lastSync[c].last_sheet_sync_at,
           last_db_sync_at |-> IF lastSync[c].last_db_sync_at = "recent"
                               THEN "due" ELSE lastSync[c].last_db_sync_at]]
    /\ UNCHANGED <<isRunning, timers, calls, started, dlq, events, faults>>
    /\ UNCHANGED <<dataVars, unitVars>>

\* the stores of the configurations are not looked at in SpecOrch
InitOrch ==
    /\ OrchInit
    /\ UnitIdle
    /\ sheet = <<Header>>
    /\ sheetEtag = 1
    /\ db = [k \in Keys |-> NoRow]
    /\ changeLog = <<>>
    /\ syncState = NoState
    /\ history = [sheet_to_db |-> NoHistory, db_to_sheet |-> NoHistory]
    /\ pc = "idle"
    /\ dbSyncNeeded = FALSE
    /\ extLeft = 0
    /\ consumed = {}
    /\ loop = [quiet |-> FALSE, cycle |-> "none"]
    /\ streak = [s2t |-> FALSE, t2s |-> FALSE]

NextOrch ==
    \/ start
    \/ stop
    \/ tick
    \/ triggerManualSync
    \/ decideSync
    \/ callReturns
    \/ workerStarts
    \/ workerSucceeds
    \/ workerFails
    \/ intervalElapses

SpecOrch == InitOrch /\ [][NextOrch]_vars

(***************************************************************************)
(* Properties of the orchestrator.                                         *)
(***************************************************************************)
AttemptStarts(i) == ~calls[i].run /\ calls'[i].run
AttemptEnds(i) == calls[i].run /\ ~calls'[i].run
AttemptFailed(i) == AttemptEnds(i) /\ faults' < faults
\* retry() goes on with the same job
Retried(i) ==
    /\ calls'[i].stage = calls[i].stage
    /\ calls'[i].todo = calls[i].todo

\* C7: in a cycle in which both directions are due for a config, an attempt
\* of the T->S worker starts only after the S->T worker of that cycle, with
\* all its retry attempts, has finished.
C7_SheetToDbFirst ==
    [][\A i \in 1..MaxCycles :
          (/\ AttemptStarts(i)
           /\ calls[i].stage = "db_to_sheet"
           /\ calls[i].sheetSyncNeeded
           /\ calls[i].dbSyncNeeded) => calls[i].s2t = "finished"]_vars

\* the first cycle reached T->S for its first config after an S->T that was
\* retried
C7_Witness ==
    /\ started = 1
    /\ faults < MaxFaults
    /\ dlq = <<>>
    /\ calls[1].todo = Configs
    /\ calls[1].stage = "db_to_sheet"
    /\ calls[1].run
    /\ calls[1].sheetSyncNeeded
    /\ calls[1].dbSyncNeeded

RunsFor(c) ==
    {i \in 1..MaxCycles : calls[i].run /\ Head(calls[i].todo) = c}

\* C8: for one config there are never two worker runs in progress together.
C8_OneRunPerConfig ==
    \A c \in ConfigIds : Cardinality(RunsFor(c)) <= 1

\* C9: a terminal failure of a worker adds exactly one dead-letter entry, for
\* that job, and the cycle goes on with the remaining configs; the driver
\* keeps running.
C9_FailureIsolated ==
    [][\A i \in 1..MaxCycles :
          (AttemptFailed(i) /\ ~Retried(i)) =>
              /\ Len(dlq') = Len(dlq) + 1
              /\ Last(dlq').configId = Head(calls[i].todo)
              /\ Last(dlq').direction = calls[i].stage
              /\ calls'[i].stage = "decide"
              /\ calls'[i].todo = Tail(calls[i].todo)
              /\ isRunning' = isRunning
              /\ timers' = timers]_vars

\* after the retries for the first config were exhausted, the same cycle runs
\* a worker for the second config
C9_Witness ==
    /\ started = 1
    /\ isRunning
    /\ Len(dlq) = 1
    /\ dlq[1].configId = Configs[1]
    /\ dlq[1].failureReason = "max_retries"
    /\ calls[1].failures = 1
    /\ calls[1].todo = Tail(Configs)
    /\ calls[1].run

\* C10: every worker run hands a lifecycle event to the event sink when it
\* ends (completed or failed), and a job added to the dead-letter queue hands
\* it a DLQ event.
C10_LifecycleEvents ==
    [][/\ \A i \in 1..MaxCycles :
             AttemptEnds(i) =>
                 \E n \in 1..Len(events') :
                    /\ n > Len(events)
                    /\ events'[n].type = IF AttemptFailed(i) THEN "sync:failed"
                                         ELSE "sync:completed"
                    /\ events'[n].configId = Head(calls[i].todo)
       /\ Len(dlq') > Len(dlq) =>
             \E n \in 1..Len(events') :
                /\ n > Len(events)
                /\ events'[n].type = "dlq:added"]_vars

(***************************************************************************)
(* retry(fn, options): one call, one step per invocation of fn.            *)
(***************************************************************************)
\* what an invocation of fn can do: resolve with a value, or reject
FnValues == {"v1", "v2"}
FnErrors == WorkerErrors \cup {"Rate limit exceeded"}
FnOutcomes ==
    {[ok |-> TRUE, value |-> v, message |-> NoError] : v \in FnValues}
    \cup {[ok |-> FALSE, value |-> "<undefined>", message |-> m] : m \in FnErrors}

\* the stores of a configuration, left alone by the specifications of the
\* library functions
StoresIdle ==
    /\ sheet = <<Header>>
    /\ sheetEtag = 1
    /\ db = [k \in Keys |-> NoRow]
    /\ changeLog = <<>>
    /\ syncState = NoState
    /\ history = [sheet_to_db |-> NoHistory, db_to_sheet |-> NoHistory]
    /\ pc = "idle"
    /\ dbSyncNeeded = FALSE
    /\ extLeft = 0
    /\ consumed = {}
    /\ loop = [quiet |-> FALSE, cycle |-> "none"]
    /\ streak = [s2t |-> FALSE, t2s |-> FALSE]

\* a delay after every failed attempt, the last included
delayBefore_Always(attempt, maxAttempts) == TRUE

\* "if (attempt < opts.maxAttempts - 1)": a delay follows the failed attempt
delayBefore(attempt, maxAttempts) == attempt < maxAttempts - 1

\* every error is retried
giveUp_Never(classifier, message) == FALSE

\* "if (opts.retryableErrors && !opts.retryableErrors(error)) throw error"
giveUp(classifier, message) == classifier /\ ~isRetryableError(message)

\* one iteration of the for loop: fn is invoked; its value is returned, or
\* its error is classified and either thrown or followed by a delay
retryInvoke ==
    /\ retryState.pc = "call"
    /\ retryState.attempt < retryState.maxAttempts
    /\ \E o \in FnOutcomes :
          LET r == [retryState EXCEPT !.outcomes = Append(@, o)]
              n == Len(r.outcomes)
          IN retryState' =
                IF o.ok
                THEN [r EXCEPT !.pc = "returned", !.result = o.value]
                ELSE IF giveUp(r.classifier, o.message)
                THEN [r EXCEPT !.pc = "thrown", !.lastError = n,
                               !.thrown = [at |-> n, message |-> o.message]]
                ELSE IF delayBefore(r.attempt, r.maxAttempts)
                THEN [r EXCEPT !.pc = "sleep", !.lastError = n]
                ELSE [r EXCEPT !.attempt = @ + 1, !.lastError = n]
    /\ UNCHANGED <<dataVars, orchVars, conflictCase, detectCase, addCalls, detectConflictsCase, opCheck,
                   gateRuns, pool, breaker, jobs>>

\* "await sleep(delay)", then the next iteration
retrySleep ==
    /\ retryState.pc = "sleep"
    /\ retryState' = [retryState EXCEPT !.pc = "call", !.sleeps = @ + 1,
                                        !.attempt = @ + 1]
    /\ UNCHANGED <<dataVars, orchVars, conflictCase, detectCase, addCalls, detectConflictsCase, opCheck,
                   gateRuns, pool, breaker, jobs>>

\* the loop condition fails: "throw lastError"
retryExhausted ==
    /\ retryState.pc = "call"
    /\ retryState.attempt >= retryState.maxAttempts
    /\ retryState' =
          [retryState EXCEPT
              !.pc = "thrown",
              !.thrown = IF retryState.lastError = 0
                         THEN [at |-> 0, message |-> "<undefined>"]
                         ELSE [at |-> retryState.lastError,
                               message |-> retryState.outcomes[retryState.lastError].message]]
    /\ UNCHANGED <<dataVars, orchVars, conflictCase, detectCase, addCalls, detectConflictsCase, opCheck,
                   gateRuns, pool, breaker, jobs>>

InitRetry ==
    /\ OrchInit
    /\ StoresIdle
    /\ conflictCase = NoConflictCase
    /\ detectCase = NoDetectCase
    /\ addCalls = 0
    /\ detectConflictsCase = NoConflictsCase
    /\ opCheck = NoOpCheck
    /\ gateRuns = NoGateRuns
    /\ pool = NoPool
    /\ breaker = NoBreaker
    /\ jobs = NoJobs
    /\ \E m \in 0..MaxRetryOption, c \in BOOLEAN :
          retryState = [NoRetry EXCEPT !.maxAttempts = m, !.classifier = c,
                                       !.pc = "call"]

NextRetry == retryInvoke \/ retrySleep \/ retryExhausted

SpecRetry == InitRetry /\ [][NextRetry]_vars

\* the error of invocation j counts as retryable for this call
RetryableFailure(j) ==
    /\ ~retryState.outcomes[j].ok
    /\ ~giveUp(retryState.classifier, retryState.outcomes[j].message)

\* C11: retry invokes fn at most maxAttempts times; it returns the result of
\* the first successful invocation and does not invoke fn after it; when all
\* maxAttempts invocations fail with retryable errors it throws the error of
\* the last one, having slept only between invocations.
C11_RetryBounded ==
    LET r == retryState
        n == Len(r.outcomes)
    IN /\ n <= r.maxAttempts
       /\ (n > 0 /\ \E j \in 1..n : r.outcomes[j].ok) =>
             /\ r.pc = "returned"
             /\ r.outcomes[n].ok
             /\ \A j \in 1..(n - 1) : ~r.outcomes[j].ok
             /\ r.result = r.outcomes[n].value
       /\ (r.pc = "thrown" /\ n = r.maxAttempts /\ n > 0
              /\ \A j \in 1..n : RetryableFailure(j)) =>
             /\ r.thrown = [at |-> n, message |-> r.outcomes[n].message]
             /\ r.sleeps = n - 1

\* all attempts of a call with a classifier failed with retryable errors
C11_Witness ==
    /\ retryState.pc = "thrown"
    /\ retryState.classifier
    /\ retryState.maxAttempts = MaxRetryOption
    /\ Len(retryState.outcomes) = MaxRetryOption
    /\ \A j \in 1..MaxRetryOption : RetryableFailure(j)

\* C12: an error the classifier reports as not retryable is thrown at once:
\* it is the last invocation, that same error is thrown, and no delay was
\* slept after it, whatever the attempt number.
C12_NonRetryableThrown ==
    LET r == retryState
    IN \A j \in 1..Len(r.outcomes) :
          (/\ ~r.outcomes[j].ok
           /\ r.classifier
           /\ ~isRetryableError(r.outcomes[j].message)) =>
              /\ j = Len(r.outcomes)
              /\ r.pc = "thrown"
              /\ r.thrown = [at |-> j, message |-> r.outcomes[j].message]
              /\ r.sleeps = j - 1

\* a non-retryable error at the second of three attempts
C12_Witness ==
    /\ retryState.maxAttempts = 3
    /\ retryState.classifier
    /\ Len(retryState.outcomes) = 2
    /\ ~retryState.outcomes[2].ok
    /\ ~isRetryableError(retryState.outcomes[2].message)
    /\ retryState.pc = "thrown"

(***************************************************************************)
(* ConflictResolver.resolveConflict.                                       *)
(***************************************************************************)
\* a call of resolveConflict
resolve ==
    /\ conflictCase.phase = "input"
    /\ conflictCase' =
          [conflictCase EXCEPT
              !.phase = "resolved",
              !.resolved = resolveConflict(conflictCase.conflict,
                                           conflictCase.strategy)]
    /\ UNCHANGED <<dataVars, orchVars, retryState, detectCase, addCalls, detectConflictsCase, opCheck,
                   gateRuns, pool, breaker, jobs>>

InitResolve ==
    /\ OrchInit
    /\ StoresIdle
    /\ retryState = NoRetry
    /\ detectCase = NoDetectCase
    /\ addCalls = 0
    /\ detectConflictsCase = NoConflictsCase
    /\ opCheck = NoOpCheck
    /\ gateRuns = NoGateRuns
    /\ pool = NoPool
    /\ breaker = NoBreaker
    /\ jobs = NoJobs
    /\ \E k \in Keys, sv \in Vals, dv \in Vals,
          st \in 0..MaxTimestamp, dt \in 0..MaxTimestamp,
          strategy \in ConflictStrategies \cup {UnknownStrategy} :
          conflictCase =
              [NoConflictCase EXCEPT
                  !.phase = "input",
                  !.conflict = [rowId |-> k, sheetValue |-> sv, dbValue |-> dv,
                                sheetTimestamp |-> st, dbTimestamp |-> dt],
                  !.strategy = strategy]

NextResolve == resolve

SpecResolve == InitResolve /\ [][NextResolve]_vars

\* C13: under last-write-wins the side with the strictly later timestamp
\* wins, and on equal timestamps the spreadsheet wins.
C13_LastWriteWins ==
    LET c == conflictCase.conflict
        r == conflictCase.resolved
    IN (conflictCase.phase = "resolved"
            /\ conflictCase.strategy = "last_write_wins") =>
          /\ c.sheetTimestamp > c.dbTimestamp =>
                (r.winner = "sheet" /\ r.resolvedValue = c.sheetValue)
          /\ c.dbTimestamp > c.sheetTimestamp =>
                (r.winner = "db" /\ r.resolvedValue = c.dbValue)
          /\ c.sheetTimestamp = c.dbTimestamp =>
                (r.winner = "sheet" /\ r.resolvedValue = c.sheetValue)

(***************************************************************************)
(* ChangeDetector.detect, with primaryKey "id" and no ignoreColumns.       *)
(***************************************************************************)
\* the rows detect is called on
DetectIds == Keys \cup {"", JsNull, JsUndefined, Num1}
DetectNames == Vals \cup {" a"}
DetectRows == {[id |-> k, name |-> v] : k \in DetectIds, v \in DetectNames}
DetectLists ==
    UNION {[1..n -> DetectRows] : n \in 0..MaxDetectRows}

\* a call of detect
detectCall ==
    /\ detectCase.phase = "input"
    /\ detectCase' =
          [detectCase EXCEPT
              !.phase = "done",
              !.result = detect(detectCase.current, detectCase.baseline)]
    /\ UNCHANGED <<dataVars, orchVars, retryState, conflictCase, addCalls, detectConflictsCase, opCheck,
                   gateRuns, pool, breaker, jobs>>

InitDetect ==
    /\ OrchInit
    /\ StoresIdle
    /\ retryState = NoRetry
    /\ conflictCase = NoConflictCase
    /\ addCalls = 0
    /\ detectConflictsCase = NoConflictsCase
    /\ opCheck = NoOpCheck
    /\ gateRuns = NoGateRuns
    /\ pool = NoPool
    /\ breaker = NoBreaker
    /\ jobs = NoJobs
    /\ \E current \in DetectLists, baseline \in DetectLists :
          detectCase = [NoDetectCase EXCEPT !.phase = "input",
                                            !.current = current,
                                            !.baseline = baseline]

NextDetect == detectCall

SpecDetect == InitDetect /\ [][NextDetect]_vars

\* the row has a primary key
Keyed(row) == row.id # "" /\ row.id # JsNull /\ row.id # JsUndefined
KeysOf(rows) == {rows[j].id : j \in {l \in 1..Len(rows) : Keyed(rows[l])}}
\* the baseline row of a key: the last one with it in the list
BaselineRow(baseline, key) ==
    LET at == {j \in 1..Len(baseline) : baseline[j].id = key}
    IN baseline[CHOOSE j \in at : \A l \in at : l <= j]
\* the two values differ as trimmed strings (null and undefined being one
\* value, different from every string)
Differ(a, b) ==
    LET nullish(v) == v = JsNull \/ v = JsUndefined
    IN IF nullish(a) \/ nullish(b) THEN nullish(a) # nullish(b)
       ELSE trim(a) # trim(b)
KeySeq(rows) == [j \in 1..Len(rows) |-> rows[j].id]

dlqJob(n) ==
    [jobId |-> n, configId |-> Configs[1], direction |-> "sheet_to_db",
     error |-> "connect ETIMEDOUT", attemptsMade |-> 5,
     failureReason |-> "max_retries"]

\* deadLetterQueue.add(entry)
dlqAddCall ==
    /\ addCalls < DlqMaxSize + MaxDlqOverflow
    /\ addCalls' = addCalls + 1
    /\ dlq' = dlqAdd(dlq, dlqJob(addCalls + 1))
    /\ UNCHANGED <<isRunning, timers, calls, started, lastSync, events, faults>>
    /\ UNCHANGED <<dataVars, retryState, conflictCase, detectCase, detectConflictsCase,
                   opCheck, gateRuns, pool, breaker, jobs>>

InitDlq ==
    /\ OrchInit
    /\ StoresIdle
    /\ UnitIdle

NextDlq == dlqAddCall

SpecDlq == InitDlq /\ [][NextDlq]_vars

\* C15: after any number of add calls the queue holds at most 1000 entries,
\* the most recently added ones in the order they were added; an add at the
\* bound evicts the oldest entry and nothing else.
C15_DlqBounded ==
    LET held == IF addCalls < 1000 THEN addCalls ELSE 1000
    IN /\ Len(dlq) <= 1000
       /\ Len(dlq) = held
       /\ \A i \in 1..Len(dlq) : dlq[i] = dlqJob(addCalls - held + i)

\* more entries were added than the queue holds
C15_Witness ==
    /\ addCalls = DlqMaxSize + MaxDlqOverflow
    /\ Len(dlq) = DlqMaxSize
    /\ dlq[1].jobId = MaxDlqOverflow + 1


\* ---------------------------------------------------------------------
\* Which workers a cycle invokes (SpecOrch)
\* ---------------------------------------------------------------------

InactiveIds ==
    {SyncConfigs[j].id : j \in {k \in 1..Len(SyncConfigs) : ~SyncConfigs[k].is_active}}

\* call i is a cycle begun by start() or by the timer
Periodic(i) == calls[i].kind \in {"start", "tick"}

\* call i takes up its next config and reads that config's sync state
Decides(i) ==
    /\ calls[i].stage = "decide"
    /\ calls[i].todo # <<>>
    /\ calls'[i] # calls[i]

\* call i is done with the config at the head of its list
VisitEnds(i) ==
    /\ calls[i].todo # <<>>
    /\ calls'[i].todo = Tail(calls[i].todo)

\* a timestamp is null or at least the sync interval old
Due(last) == last \in {NullTime, "due"}

\* the config's sync state as the visit that ends read it
TableDue(i) ==
    IF calls[i].stage = "decide"
    THEN Due(lastSync[Head(calls[i].todo)].last_db_sync_at)
    ELSE calls[i].dbSyncNeeded

\* the visit that ends invoked the table-to-sheet worker
TableRan(i) == calls[i].stage = "db_to_sheet"

\* the visit ends with the last failed attempt of the sheet-to-table worker
SheetGaveUp(i) == calls[i].stage = "sheet_to_db" /\ AttemptFailed(i)

\* no worker runs, or is about to run, for an inactive config
InactiveNeverRun ==
    \A i \in 1..MaxCycles :
        (calls[i].todo # <<>> /\ calls[i].stage # "decide")
            => Head(calls[i].todo) \notin InactiveIds

\* the sheet-to-table worker is invoked exactly when last_sheet_sync_at is due
SheetRunsIffDue(i) ==
    LET state == lastSync[Head(calls[i].todo)]
    IN /\ (calls'[i].stage = "sheet_to_db") <=> Due(state.last_sheet_sync_at)
       /\ (calls'[i].stage = "db_to_sheet") =>
              (~Due(state.last_sheet_sync_at) /\ Due(state.last_db_sync_at))
       /\ calls'[i].stage # "decide" =>
              calls'[i].dbSyncNeeded = Due(state.last_db_sync_at)
       /\ (calls'[i].stage = "decide") => VisitEnds(i)

\* C16 as stated: in a periodic cycle the sheet-to-table worker is invoked
\* for an active config if and only if last_sheet_sync_at is null or at
\* least the sync interval old, the table-to-sheet worker if and only if
\* last_db_sync_at is null or at least the sync interval old, and inactive
\* configs are never run
C16_WorkerIffDue ==
    /\ []InactiveNeverRun
    /\ [][\A i \in 1..MaxCycles :
            /\ (Periodic(i) /\ Decides(i)) => SheetRunsIffDue(i)
            /\ (Periodic(i) /\ VisitEnds(i)) => (TableRan(i) <=> TableDue(i))]_vars

\* C16 amended: as above, but the table-to-sheet worker is invoked if and
\* only if last_db_sync_at is due and the sheet-to-table worker, when it was
\* invoked in the same visit, did not fail for good
C16_WorkerIffDueUnlessFailed ==
    /\ []InactiveNeverRun
    /\ [][\A i \in 1..MaxCycles :
            /\ (Periodic(i) /\ Decides(i)) => SheetRunsIffDue(i)
            /\ (Periodic(i) /\ VisitEnds(i)) =>
                   (TableRan(i) <=> (TableDue(i) /\ ~SheetGaveUp(i)))]_vars

\* a periodic cycle runs the table-to-sheet worker alone for a config whose
\* last_sheet_sync_at is recent and whose last_db_sync_at is due
C16_Witness ==
    \E i \in 1..MaxCycles :
        /\ Periodic(i)
        /\ calls[i].stage = "db_to_sheet"
        /\ calls[i].run
        /\ calls[i].todo # <<>>
        /\ lastSync[Head(calls[i].todo)].last_sheet_sync_at = "recent"
        /\ ~calls[i].sheetSyncNeeded
        /\ calls[i].dbSyncNeeded


\* ---------------------------------------------------------------------
\* Manual triggers (SpecOrch)
\* ---------------------------------------------------------------------

\* call i was begun by triggerManualSync / triggerImmediateSync
Manual(i) == calls[i].kind = "manual"

\* C17: a manual trigger for a config runs that config's workers at once,
\* also when both of its last-sync timestamps are younger than the sync
\* interval, and runs no other config
C17_ManualBypassesInterval ==
    /\ [](\A i \in 1..MaxCycles : Manual(i) => Len(calls[i].todo) <= 1)
    /\ [][\A i \in 1..MaxCycles :
            (Manual(i) /\ Decides(i)) =>
                /\ calls'[i].stage = "sheet_to_db"
                /\ calls'[i].sheetSyncNeeded
                /\ calls'[i].dbSyncNeeded]_vars


\* ---------------------------------------------------------------------
\* start and stop (SpecOrch)
\* ---------------------------------------------------------------------

\* a cycle of the given kind begins in this step
CycleBegins(kind) ==
    /\ started' = started + 1
    /\ calls'[started'].kind = kind

\* C18: start runs one cycle at once and then one cycle per tick interval
\* (one timer feeds the cycles); a start call while the orchestrator is
\* running starts nothing; after stop no new cycle begins, while a cycle
\* in flight is left to run to its end
C18_StartStop ==
    /\ [](isRunning => timers <= 1)
    /\ [][/\ (~isRunning /\ isRunning') => CycleBegins("start")
          /\ CycleBegins("start") => ~isRunning
          /\ CycleBegins("tick") => (isRunning /\ timers > 0)
          /\ (isRunning /\ ~isRunning') => calls' = calls]_vars

\* the parts of C18 that do not depend on the number of timers
C18_FlagGuardsCycles ==
    [][/\ (~isRunning /\ isRunning') => CycleBegins("start")
       /\ CycleBegins("start") => ~isRunning
       /\ CycleBegins("tick") => (isRunning /\ timers > 0)
       /\ (isRunning /\ ~isRunning') => calls' = calls]_vars


\* ---------------------------------------------------------------------
\* What a successful sheet-to-table run leaves behind (Spec)
\* ---------------------------------------------------------------------

\* the spreadsheet's data rows: the rows after the header with a key
SheetDataRows ==
    {<<sheet[n][1], sheet[n][2]>> : n \in {m \in 2..Len(sheet) : sheet[m][1] # ""}}

\* the rows of the table, with their mapped columns
TableRows(rows) == {<<k, rows[k]>> : k \in {j \in Keys : rows[j] # NoRow}}

\* this step is a sheet-to-table run that applied its change set
SheetToDbApplied == SheetToDbRan /\ SheetToDbExecute.outcome = "applied"

\* C19: after a successful sheet-to-table run that applied changes and met
\* no conflict, the table holds exactly the spreadsheet's data rows,
\* last_sheet_sync_at is set, the stored ETag is the ETag the read returned,
\* and rows_affected is the number of rows written
C19_AppliedRunMirrorsSheet ==
    [][SheetToDbApplied =>
          /\ TableRows(db') = SheetDataRows
          /\ syncState'.last_sheet_sync_at = "recent"
          /\ syncState'.sheet_etag = sheetEtag
          /\ history'.sheet_to_db.status = "success"
          /\ history'.sheet_to_db.rows_affected = Len(changeLog') - Len(changeLog)]_vars


\* ---------------------------------------------------------------------
\* Conflicts met by a sheet-to-table run (Spec)
\* ---------------------------------------------------------------------

\* the keys of the rows in the change set of a run started now
ChangeSetKeys ==
    LET changes == detect(convertSheetDataToRows(sheet), AdapterSelect(db))
    IN {changes.inserts[j].id : j \in 1..Len(changes.inserts)}
          \cup {changes.updates[j].identifier : j \in 1..Len(changes.updates)}
          \cup {changes.deletes[j] : j \in 1..Len(changes.deletes)}

\* the keys another client has written since the last table-to-sheet run:
\* their change-log entries are still unprocessed; each entry carries the
\* whole row, so it touches the column the change set changes
ChangedInTable ==
    {changeLog[j].row_data.id :
        j \in {l \in 1..Len(changeLog) :
                  ~changeLog[l].processed /\ changeLog[l].source_tag = "external"}}

ConflictedKeys == ChangeSetKeys \cap ChangedInTable

\* C20: when the change set of a sheet-to-table run holds a row the table
\* change log shows as changed since the last table-to-sheet sync, the run
\* detects a conflict for it, records it and counts it in conflicts_detected
C20_ConflictDetected ==
    [][(SheetToDbApplied /\ ConflictedKeys # {}) =>
          history'.sheet_to_db.conflicts_detected = Cardinality(ConflictedKeys)]_vars


\* ---------------------------------------------------------------------
\* What a resolved conflict does to the row's write (Spec)
\* ---------------------------------------------------------------------

\* the last change another client made to the row since the last
\* table-to-sheet run
LastExternalChange(k) ==
    changeLog[CHOOSE j \in 1..Len(changeLog) :
        /\ ~changeLog[j].processed
        /\ changeLog[j].source_tag = "external"
        /\ changeLog[j].row_data.id = k
        /\ \A l \in (j + 1)..Len(changeLog) :
              ~(/\ ~changeLog[l].processed
                /\ changeLog[l].source_tag = "external"
                /\ changeLog[l].row_data.id = k)]

\* the row's value in the spreadsheet, read now
SheetValueOf(k) ==
    IF \E n \in 2..Len(sheet) : sheet[n][1] = k
    THEN sheet[CHOOSE n \in 2..Len(sheet) : sheet[n][1] = k][2]
    ELSE "<null>"

\* the conflict of the row: the sheet side is read now, after every entry
\* of the change log was written
ConflictOf(k) ==
    [rowId |-> k,
     sheetValue |-> SheetValueOf(k),
     dbValue |-> LastExternalChange(k).row_data.name,
     sheetTimestamp |-> Len(changeLog) + 1,
     dbTimestamp |-> LastExternalChange(k).changed_at]

\* the writes a run with result r made to the row
WritesTo(r, k) ==
    SelectSeq(SubSeq(r.changeLog, Len(changeLog) + 1, Len(r.changeLog)),
              LAMBDA e : e.row_data.id = k)

\* C21: in a sheet-to-table run a row whose conflict resolves to winner
\* table or manual receives no table write, and a row whose conflict
\* resolves to winner spreadsheet receives exactly one write, carrying the
\* spreadsheet value; stated for every conflict strategy the config may
\* carry
C21_WinnerDecidesWrite ==
    pc = "sheet_to_db" =>
        \A strategy \in ConflictStrategies :
            LET r == SheetToDbExecuteWith(strategy)
            IN r.outcome = "applied" =>
                  \A k \in ConflictedKeys :
                      LET winner == resolveConflict(ConflictOf(k), strategy).winner
                          writes == WritesTo(r, k)
                      IN /\ winner \in {"db", "manual"} => writes = <<>>
                         /\ winner = "sheet" =>
                               /\ Len(writes) = 1
                               /\ SheetValueOf(k) # "<null>" =>
                                     writes[1].row_data.name = SheetValueOf(k)


(***************************************************************************)
(* ConflictResolver.detectConflicts, exercised on its own (SpecConflicts). *)
(***************************************************************************)
ColumnLists == {<<"name">>, <<"email">>, <<"name", "email">>}

\* a change of either side; the sheet side carries value a, the table side b
ChangesOf(value) ==
    [rowId : Keys, data : {value}, timestamp : 0..MaxTimestamp,
     columns : ColumnLists]

ChangeLists(value) ==
    UNION {[1..n -> ChangesOf(value)] : n \in 0..MaxChanges}

\* an overlap that keeps every column of the second list
findOverlappingColumns_All(cols1, cols2) == cols2

\* findOverlappingColumns: "cols2.filter((col) => set1.has(col))"
findOverlappingColumns(cols1, cols2) ==
    SelectSeq(cols2, LAMBDA col : \E j \in 1..Len(cols1) : cols1[j] = col)

\* dbChangeMap.get(rowId) after the loop of dbChangeMap.set: the last change
\* of the row
dbChangeMapHas(dbChanges, rowId) ==
    \E j \in 1..Len(dbChanges) : dbChanges[j].rowId = rowId

dbChangeMapGet(dbChanges, rowId) ==
    dbChanges[CHOOSE j \in 1..Len(dbChanges) :
        /\ dbChanges[j].rowId = rowId
        /\ \A l \in (j + 1)..Len(dbChanges) : dbChanges[l].rowId # rowId]

RECURSIVE conflictsOf(_, _, _)
\* the loop over input.sheetChanges
conflictsOf(sheetChanges, dbChanges, lastSyncTime) ==
    IF sheetChanges = <<>> THEN <<>>
    ELSE LET sheetChange == Head(sheetChanges)
             rest == conflictsOf(Tail(sheetChanges), dbChanges, lastSyncTime)
         IN IF ~dbChangeMapHas(dbChanges, sheetChange.rowId) THEN rest
            ELSE LET dbChange == dbChangeMapGet(dbChanges, sheetChange.rowId)
                     sheetAfterSync == sheetChange.timestamp > lastSyncTime
                     dbAfterSync == dbChange.timestamp > lastSyncTime
                     overlappingColumns ==
                         findOverlappingColumns(sheetChange.columns,
                                                dbChange.columns)
                 IN IF ~sheetAfterSync \/ ~dbAfterSync THEN rest
                    ELSE IF Len(overlappingColumns) > 0
                    THEN <<[rowId |-> sheetChange.rowId,
                            sheetValue |-> sheetChange.data,
                            dbValue |-> dbChange.data,
                            sheetTimestamp |-> sheetChange.timestamp,
                            dbTimestamp |-> dbChange.timestamp,
                            conflictingColumns |-> overlappingColumns]>> \o rest
                    ELSE rest

\* ConflictResolver.detectConflicts(input)
resolverDetectConflicts(input) ==
    conflictsOf(input.sheetChanges, input.dbChanges, input.lastSyncTime)

\* a call of detectConflicts
detectConflictsCall ==
    /\ detectConflictsCase.phase = "input"
    /\ detectConflictsCase' =
          [detectConflictsCase EXCEPT
              !.phase = "done",
              !.result = resolverDetectConflicts(
                             [sheetChanges |-> detectConflictsCase.sheetChanges,
                              dbChanges |-> detectConflictsCase.dbChanges,
                              lastSyncTime |-> detectConflictsCase.lastSyncTime])]
    /\ UNCHANGED <<dataVars, orchVars, retryState, conflictCase, detectCase, addCalls, opCheck,
                   gateRuns, pool, breaker, jobs>>

InitConflicts ==
    /\ OrchInit
    /\ StoresIdle
    /\ retryState = NoRetry
    /\ conflictCase = NoConflictCase
    /\ detectCase = NoDetectCase
    /\ addCalls = 0
    /\ opCheck = NoOpCheck
    /\ gateRuns = NoGateRuns
    /\ pool = NoPool
    /\ breaker = NoBreaker
    /\ jobs = NoJobs
    /\ \E sheetChanges \in ChangeLists("a"), dbChanges \in ChangeLists("b"),
          lastSyncTime \in 0..MaxTimestamp :
          detectConflictsCase =
              [NoConflictsCase EXCEPT !.phase = "input",
                                      !.sheetChanges = sheetChanges,
                                      !.dbChanges = dbChanges,
                                      !.lastSyncTime = lastSyncTime]

NextConflicts == detectConflictsCall

SpecConflicts == InitConflicts /\ [][NextConflicts]_vars

\* the columns two lists share
Shared(cols1, cols2) ==
    {cols1[j] : j \in 1..Len(cols1)} \cap {cols2[j] : j \in 1..Len(cols2)}

\* the table-side change of a row: the last one the input holds for it
TableChange(rowId) == dbChangeMapGet(detectConflictsCase.dbChanges, rowId)

\* a sheet-side change that conflicts with the table-side change of its row
Conflicting(sheetChange) ==
    /\ \E j \in 1..Len(detectConflictsCase.dbChanges) :
          detectConflictsCase.dbChanges[j].rowId = sheetChange.rowId
    /\ sheetChange.timestamp > detectConflictsCase.lastSyncTime
    /\ TableChange(sheetChange.rowId).timestamp > detectConflictsCase.lastSyncTime
    /\ Shared(sheetChange.columns, TableChange(sheetChange.rowId).columns) # {}

\* C22: detectConflicts reports a conflict for a row exactly when the row
\* appears in both change sets, both change timestamps are strictly after
\* the last sync time and the changed-column sets share a column; the
\* conflicting columns it reports are exactly the shared columns
C22_ConflictsExact ==
    detectConflictsCase.phase = "done" =>
        LET sheetChanges == detectConflictsCase.sheetChanges
            result == detectConflictsCase.result
        IN /\ \A k \in Keys :
                 (\E j \in 1..Len(result) : result[j].rowId = k)
                    <=> (\E j \in 1..Len(sheetChanges) :
                            /\ sheetChanges[j].rowId = k
                            /\ Conflicting(sheetChanges[j]))
           /\ result =
                 LET hits == SelectSeq(sheetChanges, Conflicting)
                 IN [j \in 1..Len(hits) |->
                       [rowId |-> hits[j].rowId,
                        sheetValue |-> hits[j].data,
                        dbValue |-> TableChange(hits[j].rowId).data,
                        sheetTimestamp |-> hits[j].timestamp,
                        dbTimestamp |-> TableChange(hits[j].rowId).timestamp,
                        conflictingColumns |-> result[j].conflictingColumns]]
           /\ \A j \in 1..Len(result) :
                 {result[j].conflictingColumns[l] :
                     l \in 1..Len(result[j].conflictingColumns)}
                   = Shared(SelectSeq(sheetChanges, Conflicting)[j].columns,
                            TableChange(result[j].rowId).columns)

\* a call that reports a conflict for one row and none for the other, whose
\* changes on the two sides touch different columns
C22_Witness ==
    /\ detectConflictsCase.phase = "done"
    /\ Len(detectConflictsCase.result) = 1
    /\ Len(detectConflictsCase.sheetChanges) = 2
    /\ Len(detectConflictsCase.dbChanges) = 2
    /\ detectConflictsCase.sheetChanges[1].rowId # detectConflictsCase.sheetChanges[2].rowId
    /\ detectConflictsCase.dbChanges[1].rowId # detectConflictsCase.dbChanges[2].rowId
    /\ \A j \in 1..2 :
          /\ detectConflictsCase.sheetChanges[j].timestamp > detectConflictsCase.lastSyncTime
          /\ detectConflictsCase.dbChanges[j].timestamp > detectConflictsCase.lastSyncTime


(***************************************************************************)
(* Runs in which a call to the target database or to the spreadsheet       *)
(* fails (SpecFault): Spec, plus a sheet-to-table run in which a statement *)
(* of the transaction callback raises an error, plus a table-to-sheet run  *)
(* in which the read, one of the two spreadsheet writes or the marking of  *)
(* the entries raises one.                                                 *)
(***************************************************************************)
\* errors of the two remote stores that isRetryableError does not match
DbErrorMsg == "Lock wait timeout exceeded; try restarting transaction"
SheetErrorMsg == "The caller does not have permission"

Min(a, b) == IF a < b THEN a ELSE b

\* execute() when statement number failAt of the updates and deletes raises
\* DbErrorMsg: the statements before it have run, each on its own pooled
\* connection; the catch block finalizes the history and rethrows
SheetToDbExecuteFailing(failAt) ==
    LET sheetData == getRange(syncState.sheet_etag)
        sheetRows == convertSheetDataToRows(sheetData.values)
        dbRows == AdapterSelect(db)
        changes == detect(sheetRows, dbRows)
        conflicts == detectConflicts(changes, syncState.last_db_sync_at)
        resolvedConflicts ==
            [j \in 1..Len(conflicts) |->
                resolveConflict(conflicts[j], conflict_strategy)]
        toApply == changesToApply(changes, resolvedConflicts)
        d0 == [rows |-> db, log |-> changeLog, error |-> NoError,
               client |-> "sheet_to_db"]
        t1 == applyUpdates([d |-> d0, rowsAffected |-> 0],
                           SubSeq(toApply.updates, 1,
                                  Min(failAt - 1, Len(toApply.updates))))
        t2 == IF failAt > Len(toApply.updates)
              THEN applyDeletes(t1, SubSeq(toApply.deletes, 1,
                                           Min(failAt - 1 - Len(toApply.updates),
                                               Len(toApply.deletes))))
              ELSE t1
        after == transaction(d0, [t2.d EXCEPT !.error = DbErrorMsg])
    IN [reached |-> /\ ~sheetData.notModified
                    /\ Len(toApply.inserts) = 0
                    /\ failAt \in 1..(Len(toApply.updates) + Len(toApply.deletes)),
        db |-> after.rows,
        changeLog |-> after.log,
        syncState |-> syncState,
        outcome |-> "failed",
        thrown |-> after.error,
        history |-> HistoryRow("failed", 0, after.error)]

\* the calls of a table-to-sheet run that reach a remote store
RemoteCalls == <<"getRange", "batchUpdate", "appendRows", "markChangesProcessed">>

\* a failing run that marks the entries before the spreadsheet is written
markedBeforeFailure_All(log, ids, failAt) == markChangesProcessed(log, ids)

\* the change log after a run that failed at call failAt: markChangesProcessed
\* comes after both spreadsheet writes, so no failing call leaves it done
markedBeforeFailure(log, ids, failAt) ==
    IF failAt > 4 THEN markChangesProcessed(log, ids) ELSE log

\* execute() when its remote call number failAt raises an error
DbToSheetExecuteFailing(failAt) ==
    LET changeLogEntries == getChangeLog(changeLog, FALSE, "from_sheet", ChangeLogLimit)
        sheetData == getRange(0)
        sheetRows == convertSheetDataToRows(sheetData.values)
        batchUpdates == buildBatchUpdates(changeLogEntries, sheetRows)
        rowsToAppend == buildRowsToAppend(changeLogEntries, sheetRows)
        sheet1 == IF Len(batchUpdates) > 0 /\ failAt > 2
                  THEN batchUpdate(sheet, batchUpdates) ELSE sheet
        sheet2 == IF Len(rowsToAppend) > 0 /\ failAt > 3
                  THEN appendRows(sheet1, rowsToAppend) ELSE sheet1
        writeCalls == (IF Len(batchUpdates) > 0 /\ failAt > 2 THEN 1 ELSE 0)
                      + (IF Len(rowsToAppend) > 0 /\ failAt > 3 THEN 1 ELSE 0)
        changeLogIds == {changeLogEntries[i].id : i \in 1..Len(changeLogEntries)}
        error == IF RemoteCalls[failAt] = "markChangesProcessed"
                 THEN DbErrorMsg ELSE SheetErrorMsg
    IN [reached |-> /\ Len(changeLogEntries) > 0
                    /\ RemoteCalls[failAt] = "batchUpdate" => Len(batchUpdates) > 0
                    /\ RemoteCalls[failAt] = "appendRows" => Len(rowsToAppend) > 0,
        sheet |-> TrimBlank(sheet2),
        sheetEtag |-> sheetEtag + writeCalls,
        changeLog |-> markedBeforeFailure(changeLog, changeLogIds, failAt),
        syncState |-> syncState,
        consumed |-> IF writeCalls > 0 THEN changeLogIds ELSE {},
        fetched |-> changeLogIds,
        outcome |-> "failed",
        thrown |-> error,
        history |-> HistoryRow("failed", 0, error)]

\* executeWithRetry('sheet_to_db', ...) when the run fails: the error is not
\* retryable, so it is rethrown at once and the T->S half is skipped
RunSheetToDbFails ==
    /\ pc = "sheet_to_db"
    /\ faults > MaxFaults - MaxRunFaults
    /\ faults' = faults - 1
    /\ \E failAt \in 1..Cardinality(Keys) :
          LET r == SheetToDbExecuteFailing(failAt)
          IN /\ r.reached
             /\ ~isRetryableError(r.thrown)
             /\ db' = r.db
             /\ changeLog' = r.changeLog
             /\ syncState' = r.syncState
             /\ history' = [history EXCEPT !.sheet_to_db = r.history]
             /\ streak' = [s2t |-> FALSE, t2s |-> streak.t2s /\ r.changeLog = changeLog]
    /\ pc' = "idle"
    /\ loop' = EndCycle(loop)
    /\ UNCHANGED <<sheet, sheetEtag, dbSyncNeeded, extLeft, consumed>>
    /\ UNCHANGED <<isRunning, timers, calls, started, lastSync, dlq, events>>
    /\ UNCHANGED unitVars

\* executeWithRetry('db_to_sheet', ...) when the run fails
RunDbToSheetFails ==
    /\ pc = "db_to_sheet"
    /\ faults > MaxFaults - MaxRunFaults
    /\ faults' = faults - 1
    /\ \E failAt \in 1..Len(RemoteCalls) :
          LET r == DbToSheetExecuteFailing(failAt)
          IN /\ r.reached
             /\ ~isRetryableError(r.thrown)
             /\ sheet' = r.sheet
             /\ sheetEtag' = r.sheetEtag
             /\ changeLog' = r.changeLog
             /\ syncState' = r.syncState
             /\ history' = [history EXCEPT !.db_to_sheet = r.history]
             /\ consumed' = consumed \cup r.consumed
             /\ streak' = [s2t |-> streak.s2t /\ r.sheet = sheet, t2s |-> FALSE]
    /\ pc' = "idle"
    /\ loop' = EndCycle(loop)
    /\ UNCHANGED <<db, dbSyncNeeded, extLeft>>
    /\ UNCHANGED <<isRunning, timers, calls, started, lastSync, dlq, events>>
    /\ UNCHANGED unitVars

\* as Init, with fewer external writes to come
InitFault ==
    /\ OrchInit
    /\ UnitIdle
    /\ \E rows \in {r \in InitRows : Len(r) <= MaxInitRows} :
           sheet = <<Header>> \o rows
    /\ sheetEtag = 1
    /\ db \in [Keys -> Vals \cup {NoRow}]
    /\ changeLog = <<>>
    /\ syncState = NoState
    /\ history = [sheet_to_db |-> NoHistory, db_to_sheet |-> NoHistory]
    /\ pc = "idle"
    /\ dbSyncNeeded = FALSE
    /\ extLeft = MaxFaultExternal
    /\ consumed = {}
    /\ loop = [quiet |-> FALSE, cycle |-> "none"]
    /\ streak = [s2t |-> FALSE, t2s |-> FALSE]

NextFault ==
    \/ Next
    \/ RunSheetToDbFails
    \/ RunDbToSheetFails

SpecFault == InitFault /\ [][NextFault]_vars


\* ---------------------------------------------------------------------
\* Failing runs (SpecFault)
\* ---------------------------------------------------------------------

\* this step is a sheet-to-table run that threw
SheetToDbFailed == SheetToDbRan /\ history'.sheet_to_db.status = "failed"

\* this step is a table-to-sheet run that threw
DbToSheetFailed == DbToSheetRan /\ history'.db_to_sheet.status = "failed"

\* C23: the table writes of one sheet-to-table run are atomic: when an
\* insert, update or delete of the run fails, none of the run's writes
\* remains in the table and none of its change-log entries remains
C23_WritesAtomic ==
    [][SheetToDbFailed => (db' = db /\ changeLog' = changeLog)]_vars


\* a sheet-to-table run throws in this step: on the insert, or on a failing
\* statement
SheetToDbThrows ==
    \/ RunSheetToDbFails
    \/ (RunSheetToDb /\ SheetToDbExecute.outcome = "failed")

ReadNotModified == syncState.sheet_etag # 0 /\ syncState.sheet_etag = sheetEtag

\* C25: when the conditional read reports not modified, the sheet-to-table
\* run writes nothing to the table, records no conflict, and finalizes its
\* history row as success with zero rows affected
C25_NotModifiedIsNoOp ==
    [][(SheetToDbRan /\ ReadNotModified) =>
          /\ db' = db
          /\ changeLog' = changeLog
          /\ history'.sheet_to_db.status = "success"
          /\ history'.sheet_to_db.rows_affected = 0
          /\ history'.sheet_to_db.conflicts_detected = 0
          /\ history'.sheet_to_db.error_message = NoError]_vars

\* a run has just met a not-modified read although the table no longer
\* holds the spreadsheet's rows
C25_Witness ==
    /\ streak.s2t
    /\ pc # "sheet_to_db"
    /\ ReadNotModified
    /\ history.sheet_to_db.status = "success"
    /\ history.sheet_to_db.rows_affected = 0
    /\ TableRows(db) # SheetDataRows
    /\ \A n \in 2..Len(sheet) : sheet[n][1] # "" => db[sheet[n][1]] # NoRow


\* ---------------------------------------------------------------------
\* Classification of change-log entries by the table-to-sheet worker (Spec)
\* ---------------------------------------------------------------------

\* what the run at hand fetches and reads
FetchedEntries == getChangeLog(changeLog, FALSE, "from_sheet", ChangeLogLimit)
ReadSheetRows == convertSheetDataToRows(getRange(0).values)

\* the sheet write an entry is turned into, read off the two lists the
\* worker builds from that entry alone
WriteFor(entry, sheetRows) ==
    [batch |-> buildBatchUpdates(<<entry>>, sheetRows),
     append |-> buildRowsToAppend(<<entry>>, sheetRows)]

\* the write the classification by presence asks for
ClassifiedWrite(entry, sheetRows) ==
    LET rowId == entry.row_data.id
        present == sheetRowMapHas(sheetRows, rowId)
        at == rangeOf(sheetRowMapIndex(sheetRows, rowId))
    IN IF entry.operation \in {"INSERT", "UPDATE"} /\ present
       THEN [batch |-> <<[row |-> at,
                          values |-> convertRowToSheetFormat(entry.row_data)]>>,
             append |-> <<>>]
       ELSE IF entry.operation \in {"INSERT", "UPDATE"}
       THEN [batch |-> <<>>,
             append |-> <<convertRowToSheetFormat(entry.row_data)>>]
       ELSE IF present
       THEN [batch |-> <<[row |-> at, values |-> BlankRow]>>, append |-> <<>>]
       ELSE [batch |-> <<>>, append |-> <<>>]

\* C26: every entry a table-to-sheet run consumes is classified by whether
\* its key is present in the spreadsheet: INSERT or UPDATE of a present key
\* is a batch update of that row, INSERT or UPDATE of an absent key is an
\* append, DELETE of a present key blanks the row, DELETE of an absent key
\* writes nothing
C26_ClassifiedByPresence ==
    pc = "db_to_sheet" =>
        \A i \in 1..Len(FetchedEntries) :
            FetchedEntries[i].row_data.id # "" =>
                WriteFor(FetchedEntries[i], ReadSheetRows)
                    = ClassifiedWrite(FetchedEntries[i], ReadSheetRows)

\* the same for every entry that is not an INSERT of a present key
C26_ClassifiedExceptInsert ==
    pc = "db_to_sheet" =>
        \A i \in 1..Len(FetchedEntries) :
            (/\ FetchedEntries[i].row_data.id # ""
             /\ ~(/\ FetchedEntries[i].operation = "INSERT"
                  /\ sheetRowMapHas(ReadSheetRows, FetchedEntries[i].row_data.id)))
            => WriteFor(FetchedEntries[i], ReadSheetRows)
                   = ClassifiedWrite(FetchedEntries[i], ReadSheetRows)


\* ---------------------------------------------------------------------
\* Marking after the spreadsheet writes (SpecFault)
\* ---------------------------------------------------------------------

\* this step is a table-to-sheet run in which a spreadsheet call threw
DbToSheetSheetCallFailed ==
    /\ DbToSheetRan
    /\ history'.db_to_sheet.status = "failed"
    /\ history'.db_to_sheet.error_message = SheetErrorMsg

\* some entry is marked processed in this step
SomeEntryMarked ==
    \E i \in 1..Len(changeLog) :
        ~changeLog[i].processed /\ changeLog'[i].processed

\* the spreadsheet after both writes of the run at hand
SheetAfterBothWrites ==
    LET batchUpdates == buildBatchUpdates(FetchedEntries, ReadSheetRows)
        rowsToAppend == buildRowsToAppend(FetchedEntries, ReadSheetRows)
        sheet1 == IF Len(batchUpdates) > 0 THEN batchUpdate(sheet, batchUpdates)
                  ELSE sheet
    IN TrimBlank(IF Len(rowsToAppend) > 0 THEN appendRows(sheet1, rowsToAppend)
                 ELSE sheet1)

RunDbToSheetScaled ==
    /\ pc = "db_to_sheet"
    /\ LET r == DbToSheetExecuteLimit(ScaledLimit)
           wrote == r.sheet # sheet
       IN /\ sheet' = r.sheet
          /\ sheetEtag' = r.sheetEtag
          /\ changeLog' = r.changeLog
          /\ syncState' = r.syncState
          /\ history' = [history EXCEPT !.db_to_sheet = r.history]
          /\ consumed' = consumed \cup r.consumed
          /\ streak' = [s2t |-> streak.s2t /\ ~wrote, t2s |-> TRUE]
    /\ pc' = "idle"
    /\ loop' = EndCycle(loop)
    /\ UNCHANGED <<db, dbSyncNeeded, extLeft>>
    /\ UNCHANGED <<orchVars, unitVars>>

\* as Init, with one spreadsheet row at most and MaxBacklog external writes
InitBacklog ==
    /\ OrchInit
    /\ UnitIdle
    /\ \E rows \in {r \in InitRows : Len(r) <= 1} :
           sheet = <<Header>> \o rows
    /\ sheetEtag = 1
    /\ db \in [Keys -> Vals \cup {NoRow}]
    /\ changeLog = <<>>
    /\ syncState = NoState
    /\ history = [sheet_to_db |-> NoHistory, db_to_sheet |-> NoHistory]
    /\ pc = "idle"
    /\ dbSyncNeeded = FALSE
    /\ extLeft = MaxBacklog
    /\ consumed = {}
    /\ loop = [quiet |-> FALSE, cycle |-> "none"]
    /\ streak = [s2t |-> FALSE, t2s |-> FALSE]

NextBacklog ==
    \/ syncConfigWithRetry
    \/ RunSheetToDb
    \/ RunDbToSheetScaled
    \/ TimePasses
    \/ ExternalDbWrite

\* the periodic driver keeps calling syncConfigWithRetry, a started worker
\* runs to its end (a worker step is enabled exactly while pc names the
\* worker, and always leaves it), and table-to-sheet runs keep being
\* scheduled
SpecBacklog ==
    /\ InitBacklog
    /\ [][NextBacklog]_vars
    /\ WF_vars(syncConfigWithRetry)
    /\ WF_vars(TimePasses)
    /\ []<>(pc # "sheet_to_db")
    /\ []<>(pc # "db_to_sheet")
    /\ []<>(pc = "db_to_sheet")

\* the entries that are to reach the spreadsheet
Pending(log) ==
    {i \in 1..Len(log) : log[i].source_tag # "from_sheet" /\ ~log[i].processed}

\* no change log of SpecBacklog is longer than this
LogCap == 3 * MaxBacklog + 2

LogWithinCap == Len(changeLog) <= LogCap


\* entry i is in the log and is to reach the spreadsheet
ToBeProcessed(i) == i <= Len(changeLog) /\ changeLog[i].source_tag # "from_sheet"

Processed(i) == i <= Len(changeLog) /\ changeLog[i].processed

\* C28: every entry not tagged 'from_sheet' is eventually marked processed
\* when table-to-sheet runs keep being scheduled, also when more entries are
\* pending than one run fetches; and a processed flag never returns to false
C28_EventuallyProcessed ==
    /\ \A i \in 1..LogCap : ToBeProcessed(i) ~> Processed(i)
    /\ [][\A i \in 1..Len(changeLog) :
              changeLog[i].processed =>
                  /\ i <= Len(changeLog')
                  /\ changeLog'[i].id = changeLog[i].id
                  /\ changeLog'[i].processed]_vars

\* a run has fetched as many entries as the limit allows and left the rest
\* of the backlog pending
C28_Witness ==
    /\ streak.t2s
    /\ pc = "idle"
    /\ history.db_to_sheet.status = "success"
    /\ Pending(changeLog) # {}
    /\ Cardinality({i \in 1..Len(changeLog) :
                       /\ changeLog[i].source_tag # "from_sheet"
                       /\ changeLog[i].processed}) >= ScaledLimit


\* ---------------------------------------------------------------------
\* Each worker's SyncState fields (SpecFault)
\* ---------------------------------------------------------------------

\* C29: a sheet-to-table run leaves last_db_sync_at and db_last_change_id
\* as they were, and a table-to-sheet run leaves last_sheet_sync_at and the
\* stored ETag as they were, whether the run succeeds or fails
C29_OwnFieldsOnly ==
    [][/\ SheetToDbRan =>
            /\ syncState'.last_db_sync_at = syncState.last_db_sync_at
            /\ syncState'.db_last_change_id = syncState.db_last_change_id
       /\ DbToSheetRan =>
            /\ syncState'.last_sheet_sync_at = syncState.last_sheet_sync_at
            /\ syncState'.sheet_etag = syncState.sheet_etag]_vars

\* both workers have written their fields, the second without erasing the
\* first one's
C29_Witness ==
    /\ syncState.last_sheet_sync_at # NullTime
    /\ syncState.sheet_etag # 0
    /\ syncState.last_db_sync_at # NullTime
    /\ syncState.db_last_change_id # 0
    /\ history.sheet_to_db.status = "success"
    /\ history.db_to_sheet.status = "success"


\* ---------------------------------------------------------------------
\* The idempotency store (SpecIdem)
\* ---------------------------------------------------------------------

\* the values uuidv4() can return
OpIds == {"op1", "op2"}

\* Deduplicator.isProcessed: EXISTS idempotency:<operationId>
isProcessed(keys, operationId) == operationId \in keys

\* Deduplicator.markProcessed: SETEX idempotency:<operationId>
markProcessed(keys, operationId) == keys \cup {operationId}

\* the history row as createSyncHistory wrote it
RunningRow == HistoryRow("running", 0, NoError)

\* SheetToDbWorker.execute() with operationId as the uuid of step 11 and
\* keys as the store: the check sits after the two early returns and before
\* the first write, markProcessed after the last one
SheetToDbExecuteOp(operationId, keys) ==
    LET r == SheetToDbExecute
    IN IF r.outcome \in {"not_modified", "no_changes"}
       THEN r @@ [keys |-> keys, operationId |-> "", isProcessed |-> FALSE]
       ELSE IF isProcessed(keys, operationId)
       THEN [db |-> db, changeLog |-> changeLog, syncState |-> syncState,
             outcome |-> "already_processed", history |-> RunningRow,
             keys |-> keys, operationId |-> operationId, isProcessed |-> TRUE]
       ELSE r @@ [keys |-> IF r.outcome = "applied"
                           THEN markProcessed(keys, operationId) ELSE keys,
                  operationId |-> operationId, isProcessed |-> FALSE]

\* DbToSheetWorker.execute() likewise: the check sits after the fetch of the
\* change log and the read of the sheet
DbToSheetExecuteOp(operationId, keys) ==
    LET r == DbToSheetExecute
    IN IF r.outcome = "no_changes"
       THEN r @@ [keys |-> keys, operationId |-> "", isProcessed |-> FALSE]
       ELSE IF isProcessed(keys, operationId)
       THEN [sheet |-> sheet, sheetEtag |-> sheetEtag, changeLog |-> changeLog,
             syncState |-> syncState, consumed |-> {},
             outcome |-> "already_processed", history |-> RunningRow,
             keys |-> keys, operationId |-> operationId, isProcessed |-> TRUE]
       ELSE r @@ [keys |-> markProcessed(keys, operationId),
                  operationId |-> operationId, isProcessed |-> FALSE]

\* executeWithRetry('sheet_to_db', ...): a run cut short by the idempotency
\* check returns normally, so the cycle goes on as after a success
RunSheetToDbOp ==
    /\ pc = "sheet_to_db"
    /\ \E operationId \in OpIds :
        \E r \in {SheetToDbExecuteOp(operationId, opCheck.keys)} :
          LET next == IF r.outcome # "failed" /\ dbSyncNeeded
                      THEN "db_to_sheet" ELSE "idle"
              wrote == r.changeLog # changeLog
          IN /\ db' = r.db
             /\ changeLog' = r.changeLog
             /\ syncState' = r.syncState
             /\ history' = [history EXCEPT !.sheet_to_db = r.history]
             /\ pc' = next
             /\ loop' = IF next = "idle" THEN EndCycle(loop) ELSE loop
             /\ streak' = [s2t |-> TRUE, t2s |-> streak.t2s /\ ~wrote]
             /\ opCheck' = [keys |-> r.keys, operationId |-> r.operationId,
                            isProcessed |-> r.isProcessed]
    /\ UNCHANGED <<sheet, sheetEtag, dbSyncNeeded, extLeft, consumed>>
    /\ UNCHANGED orchVars
    /\ UNCHANGED <<retryState, conflictCase, detectCase, addCalls,
                   detectConflictsCase, gateRuns, pool, breaker, jobs>>

\* executeWithRetry('db_to_sheet', ...)
RunDbToSheetOp ==
    /\ pc = "db_to_sheet"
    /\ \E operationId \in OpIds :
        \E r \in {DbToSheetExecuteOp(operationId, opCheck.keys)} :
          LET wrote == r.sheet # sheet
          IN /\ sheet' = r.sheet
             /\ sheetEtag' = r.sheetEtag
             /\ changeLog' = r.changeLog
             /\ syncState' = r.syncState
             /\ history' = [history EXCEPT !.db_to_sheet = r.history]
             /\ consumed' = consumed \cup r.consumed
             /\ streak' = [s2t |-> streak.s2t /\ ~wrote, t2s |-> TRUE]
             /\ opCheck' = [keys |-> r.keys, operationId |-> r.operationId,
                            isProcessed |-> r.isProcessed]
    /\ pc' = "idle"
    /\ loop' = EndCycle(loop)
    /\ UNCHANGED <<db, dbSyncNeeded, extLeft>>
    /\ UNCHANGED orchVars
    /\ UNCHANGED <<retryState, conflictCase, detectCase, addCalls,
                   detectConflictsCase, gateRuns, pool, breaker, jobs>>

NextIdem ==
    \/ syncConfigWithRetry
    \/ RunSheetToDbOp
    \/ RunDbToSheetOp
    \/ TimePasses
    \/ ExternalSheetWrite
    \/ ExternalDbWrite

\* the stores as in InitFault, the idempotency store empty
SpecIdem == InitFault /\ [][NextIdem]_vars

\* this step is a run that the idempotency check cut short
SheetToDbCutShort == SheetToDbRan /\ opCheck'.isProcessed
DbToSheetCutShort == DbToSheetRan /\ opCheck'.isProcessed

\* a run cut short writes neither the table nor the spreadsheet
CutShortWritesNothing ==
    [][(SheetToDbCutShort \/ DbToSheetCutShort) =>
          /\ db' = db
          /\ changeLog' = changeLog
          /\ sheet' = sheet
          /\ sheetEtag' = sheetEtag
          /\ syncState' = syncState]_vars

\* C30: when the idempotency store reports the run's operation id as
\* already processed, the worker writes nothing to the table or the
\* spreadsheet and its history row is finalized with status success
C30_CutShortEndsSuccess ==
    [][/\ SheetToDbCutShort =>
            /\ db' = db
            /\ sheet' = sheet
            /\ history'.sheet_to_db.status = "success"
       /\ DbToSheetCutShort =>
            /\ db' = db
            /\ sheet' = sheet
            /\ history'.db_to_sheet.status = "success"]_vars


\* ---------------------------------------------------------------------
\* Two runs of one direction at the idempotency gate (SpecGate)
\* ---------------------------------------------------------------------

\* a run that has not reached step 11
GateStart == [pc |-> "start", operationId |-> ""]

\* "const operationId = uuidv4(); if (await deduplicator.isProcessed(...))":
\* run i draws its id and reads the store
gateCheck(i) ==
    /\ gateRuns.run[i].pc = "start"
    /\ \E operationId \in OpIds :
          gateRuns' = [gateRuns EXCEPT
              !.run[i] = [pc |-> IF isProcessed(gateRuns.keys, operationId)
                                 THEN "skipped" ELSE "checked",
                          operationId |-> operationId]]
    /\ UNCHANGED <<dataVars, orchVars, libVars, pool, breaker, jobs>>

\* run i applies its writes
gateApply(i) ==
    /\ gateRuns.run[i].pc = "checked"
    /\ gateRuns' = [gateRuns EXCEPT !.run[i].pc = "written"]
    /\ UNCHANGED <<dataVars, orchVars, libVars, pool, breaker, jobs>>

\* "await deduplicator.markProcessed(operationId, ...)"
gateMark(i) ==
    /\ gateRuns.run[i].pc = "written"
    /\ gateRuns' = [gateRuns EXCEPT
          !.run[i].pc = "done",
          !.keys = markProcessed(gateRuns.keys, gateRuns.run[i].operationId)]
    /\ UNCHANGED <<dataVars, orchVars, libVars, pool, breaker, jobs>>

\* two runs of the same direction started for the same cycle; the store may
\* hold keys of earlier runs
InitGate ==
    /\ OrchInit
    /\ StoresIdle
    /\ LibIdle
    /\ pool = NoPool
    /\ breaker = NoBreaker
    /\ jobs = NoJobs
    /\ \E keys \in SUBSET OpIds :
          gateRuns = [keys |-> keys, run |-> <<GateStart, GateStart>>]

NextGate ==
    \E i \in 1..2 : gateCheck(i) \/ gateApply(i) \/ gateMark(i)

SpecGate == InitGate /\ [][NextGate]_vars

\* run i has applied its writes
GateApplied(i) == gateRuns.run[i].pc \in {"written", "done"}

\* C31: of two runs of the same direction for the same cycle at most one
\* applies its writes, also when they overlap
C31_AtMostOneApplies == ~(GateApplied(1) /\ GateApplied(2))

\* the same for two runs that did draw the same operation id
GateSameIdOneApplies ==
    gateRuns.run[1].operationId = gateRuns.run[2].operationId
        => ~(GateApplied(1) /\ GateApplied(2))

\* the two runs of a cycle hold the same operation id
GateSameId ==
    (gateRuns.run[1].pc # "start" /\ gateRuns.run[2].pc # "start")
        => gateRuns.run[1].operationId = gateRuns.run[2].operationId


\* ---------------------------------------------------------------------
\* Keys of different types (SpecDetect)
\* ---------------------------------------------------------------------

\* the two rows have primary keys with the same string form
SameKeyAsString(a, b) == Keyed(a) /\ Keyed(b) /\ String(a.id) = String(b.id)

\* C33: a current row and a baseline row whose primary keys have the same
\* string form are the same row, whatever the types of the keys: the pair
\* yields neither an insert nor a delete
C33_KeysMatchAcrossTypes ==
    detectCase.phase = "done" =>
        \A i \in 1..Len(detectCase.current), j \in 1..Len(detectCase.baseline) :
            SameKeyAsString(detectCase.current[i], detectCase.baseline[j]) =>
                /\ \A n \in 1..Len(detectCase.result.inserts) :
                      detectCase.result.inserts[n] # detectCase.current[i]
                /\ \A n \in 1..Len(detectCase.result.deletes) :
                      detectCase.result.deletes[n] # detectCase.baseline[j].id

\* the same for keys that are equal as values
DetectKeysMatchSameType ==
    detectCase.phase = "done" =>
        \A i \in 1..Len(detectCase.current), j \in 1..Len(detectCase.baseline) :
            (/\ Keyed(detectCase.current[i])
             /\ detectCase.current[i].id = detectCase.baseline[j].id) =>
                /\ \A n \in 1..Len(detectCase.result.inserts) :
                      detectCase.result.inserts[n] # detectCase.current[i]
                /\ \A n \in 1..Len(detectCase.result.deletes) :
                      detectCase.result.deletes[n] # detectCase.baseline[j].id


\* ---------------------------------------------------------------------
\* A failed sheet-to-table worker ends the visit (SpecOrch)
\* ---------------------------------------------------------------------

\* the sheet-to-table worker of call i fails for the last time: retry()
\* throws and executeWithRetry re-throws
SheetFailsTerminally(i) == SheetGaveUp(i) /\ ~Retried(i)

\* C36: when the sheet-to-table worker of a config fails terminally, the
\* visit of that config ends there: the table-to-sheet worker is not run for
\* it in that cycle
C36_NoTableRunAfterFailure ==
    [][\A i \in 1..MaxCycles :
          SheetFailsTerminally(i) =>
              /\ VisitEnds(i)
              /\ calls'[i].stage = "decide"
              /\ ~calls'[i].run]_vars

\* a cycle has gone past a config whose sheet-to-table worker failed for
\* good while the other direction was due, and still is
C36_Witness ==
    /\ dlq # <<>>
    /\ dlq[1].direction = "sheet_to_db"
    /\ Due(lastSync[dlq[1].configId].last_db_sync_at)
    /\ \E i \in 1..MaxCycles :
          /\ calls[i].failures >= 1
          /\ calls[i].stage = "decide"
          /\ \A j \in 1..Len(calls[i].todo) : calls[i].todo[j] # dlq[1].configId


\* ---------------------------------------------------------------------
\* The periodic timers of the orchestrator (SpecOrch)
\* ---------------------------------------------------------------------

\* C37: after any sequence of start and stop calls at most one periodic
\* timer is active; stop followed by start does not leave two timers
C37_AtMostOneTimer == timers <= 1

\* a stopped orchestrator whose timer is still installed: the state from
\* which the next start installs a second one
StoppedWithTimer == ~isRunning /\ timers >= 1

\* ---------------------------------------------------------------------
\* One spreadsheet row per key (SpecFault)
\* ---------------------------------------------------------------------

\* the positions of the non-cleared rows with key k in a spreadsheet
RowsOfKeyIn(s, k) == {n \in 2..Len(s) : s[n] # BlankRow /\ s[n][1] = k}

RowsOfKey(k) == RowsOfKeyIn(sheet, k)

\* C34: after any sequence of table-to-sheet runs, a run repeated after a
\* failure between the append and the marking included, the spreadsheet
\* holds at most one non-cleared row per primary key
C34_OneRowPerKey == \A k \in Keys : Cardinality(RowsOfKey(k)) <= 1

\* the same while no table-to-sheet run has had an INSERT entry to apply:
\* updates and deletes alone never add a second row for a key
NoInsertLogged == \A i \in 1..Len(changeLog) : changeLog[i].operation # "INSERT"

OneRowPerKeyWithoutInsert == NoInsertLogged => C34_OneRowPerKey

\* ---------------------------------------------------------------------
\* Several entries for one key in a table-to-sheet run (Spec)
\* ---------------------------------------------------------------------

\* the entries of the run that carry key k, in the order they are applied
EntriesOfKey(k) == SelectSeq(FetchedEntries, LAMBDA e : e.row_data.id = k)

\* the spreadsheet s shows what entry last says about its key
Reflects(s, last) ==
    LET at == RowsOfKeyIn(s, last.row_data.id)
    IN IF last.operation = "DELETE"
       THEN at = {}
       ELSE \E n \in at :
               /\ at = {n}
               /\ s[n] = convertRowToSheetFormat(last.row_data)

\* this step is a table-to-sheet run that ended in success
DbToSheetSucceeded == DbToSheetRan /\ history'.db_to_sheet.status = "success"

\* C35: when one table-to-sheet run applies several entries for the same
\* key, the spreadsheet afterwards reflects the last of them: an insert
\* followed by a delete leaves the row absent, an insert followed by an
\* update leaves the row once, with the updated values
C35_LastEntryWins ==
    [][DbToSheetSucceeded =>
          \A k \in Keys :
             Len(EntriesOfKey(k)) >= 2 =>
                Reflects(sheet', EntriesOfKey(k)[Len(EntriesOfKey(k))])]_vars

\* the same for the keys whose row the spreadsheet holds once when the run
\* reads it and whose entries are all batch writes to that row
InPlace(k) ==
    /\ Cardinality(RowsOfKey(k)) = 1
    /\ \A i \in 1..Len(EntriesOfKey(k)) : EntriesOfKey(k)[i].operation # "INSERT"

LastEntryWinsInPlace ==
    [][DbToSheetSucceeded =>
          \A k \in Keys :
             (Len(EntriesOfKey(k)) >= 2 /\ InPlace(k)) =>
                Reflects(sheet', EntriesOfKey(k)[Len(EntriesOfKey(k))])]_vars

\* a run is about to apply two entries to a row it holds once
TwoEntriesInPlace ==
    /\ pc = "db_to_sheet"
    /\ \E k \in Keys : Len(EntriesOfKey(k)) >= 2 /\ InPlace(k)

(***************************************************************************)
(* SpecPool: the connection pool of the target-table adapter.  Each        *)
(* connection is a database session with its own @sync_source_tag; insert, *)
(* update and delete take a connection, set the tag, run their statement   *)
(* and, in the finally block, clear the tag and release the connection.    *)
(***************************************************************************)
\* connectionLimit of the pool, scaled down
PoolSize == 2
\* adapter calls made in all
MaxPoolOps == 3

Conns == 1..PoolSize

\* a released connection of a fresh pool
FreeConn ==
    [at |-> "free", tag |-> SqlNull, metadata |-> Undefined, threw |-> FALSE,
     served |-> {}]

\* "if (metadata?.sourceTag)"
hasSourceTag(metadata) == metadata.defined /\ metadata.sourceTag # ""

\* a finally block that clears the tag after a successful statement only
finallyTag_OnSuccess(tag, threw) == IF threw THEN tag ELSE SqlNull

\* finally { SET @sync_source_tag = NULL }
finallyTag(tag, threw) == SqlNull

\* "const connection = await this.pool!.getConnection()": the pool hands out
\* a connection that is not in use
getConnection(c) ==
    /\ pool.left > 0
    /\ pool.conn[c].at = "free"
    /\ \E metadata \in {Undefined, Metadata("from_sheet")} :
          pool' = [pool EXCEPT !.left = @ - 1,
                               !.conn[c].at = "set",
                               !.conn[c].metadata = metadata,
                               !.conn[c].threw = FALSE]
    /\ UNCHANGED <<dataVars, orchVars, libVars, gateRuns, breaker, jobs>>

\* "if (metadata?.sourceTag) await connection.query('SET @sync_source_tag = ?')":
\* without a source tag no statement is sent and the session keeps its tag;
\* a query that throws leads to the finally block
setSourceTag(c) ==
    /\ pool.conn[c].at = "set"
    /\ \/ pool' = [pool EXCEPT
                      !.conn[c].at = "execute",
                      !.conn[c].tag = IF hasSourceTag(pool.conn[c].metadata)
                                      THEN pool.conn[c].metadata.sourceTag
                                      ELSE @]
       \/ /\ hasSourceTag(pool.conn[c].metadata)
          /\ pool' = [pool EXCEPT !.conn[c].at = "finally",
                                  !.conn[c].threw = TRUE]
    /\ UNCHANGED <<dataVars, orchVars, libVars, gateRuns, breaker, jobs>>

\* "await connection.execute(sql, ...)": the statement fires the trigger,
\* which logs COALESCE(@sync_source_tag, 'external') of this session; or
\* building or running the statement throws and nothing is logged
executeStatement(c) ==
    /\ pool.conn[c].at = "execute"
    /\ \/ pool' = [pool EXCEPT
                      !.conn[c].at = "finally",
                      !.log = Append(@,
                          [source_tag |-> IF pool.conn[c].tag = SqlNull
                                          THEN "external" ELSE pool.conn[c].tag,
                           tagged |-> hasSourceTag(pool.conn[c].metadata),
                           conn |-> c,
                           after |-> pool.conn[c].served])]
       \/ pool' = [pool EXCEPT !.conn[c].at = "finally",
                               !.conn[c].threw = TRUE]
    /\ UNCHANGED <<dataVars, orchVars, libVars, gateRuns, breaker, jobs>>

\* "finally { await connection.query('SET @sync_source_tag = NULL');
\* connection.release() }": when the clearing statement itself throws, the
\* connection is broken and release() is never reached
finallyRelease(c) ==
    /\ pool.conn[c].at = "finally"
    /\ \/ pool' = [pool EXCEPT
                      !.conn[c].at = "free",
                      !.conn[c].tag = finallyTag(@, pool.conn[c].threw),
                      !.conn[c].served =
                          IF hasSourceTag(pool.conn[c].metadata)
                          THEN @ \cup {IF pool.conn[c].threw
                                       THEN "threw" ELSE "returned"}
                          ELSE @]
       \/ pool' = [pool EXCEPT !.conn[c].at = "lost"]
    /\ UNCHANGED <<dataVars, orchVars, libVars, gateRuns, breaker, jobs>>

InitPool ==
    /\ OrchInit
    /\ StoresIdle
    /\ LibIdle
    /\ gateRuns = NoGateRuns
    /\ breaker = NoBreaker
    /\ jobs = NoJobs
    /\ pool = [conn |-> [c \in Conns |-> FreeConn], log |-> <<>>,
               left |-> MaxPoolOps]

NextPool ==
    \E c \in Conns :
        \/ getConnection(c)
        \/ setSourceTag(c)
        \/ executeStatement(c)
        \/ finallyRelease(c)

SpecPool == InitPool /\ [][NextPool]_vars

LostStaysLost ==
    [][\A c \in Conns : pool.conn[c].at = "lost" => pool'.conn[c] = pool.conn[c]]_vars

(***************************************************************************)
(* SpecBreaker: one CircuitBreaker.  execute() is asynchronous: its check  *)
(* of the state runs at the call, onSuccess or onFailure when the wrapped  *)
(* promise settles, and other execute() calls can come in between.         *)
(***************************************************************************)
\* options.failureThreshold, options.successThreshold, options.timeout and
\* options.windowDuration, scaled down to clock ticks
ScaledFailureThreshold == 2
ScaledSuccessThreshold == 2
ScaledTimeout == 3
ScaledWindow == 2
\* the clock runs over 0..MaxNow
MaxNow == 8
\* wrapped calls in flight at one time
MaxPending == 3

CLOSED == "closed"
OPEN == "open"
HALF_OPEN == "half_open"

\* a check that finds every cool-down over
coolDownElapsed_Always(now, lastFailureTime) == TRUE

\* "now - this.lastFailureTime > this.options.timeout"
coolDownElapsed(now, lastFailureTime) == now - lastFailureTime > ScaledTimeout

\* a filter that keeps every timestamp
inWindow_All(timestamps, now) == timestamps

\* "filter((timestamp) => now - timestamp < this.options.windowDuration)"
inWindow(timestamps, now) ==
    SelectSeq(timestamps, LAMBDA timestamp : now - timestamp < ScaledWindow)

\* onSuccess()
onSuccess(b) ==
    LET successes == IF b.state = HALF_OPEN THEN b.successes + 1 ELSE b.successes
        closes == b.state = HALF_OPEN /\ successes >= ScaledSuccessThreshold
    IN [b EXCEPT !.failureTimestamps = <<>>,
                 !.successes = successes,
                 !.state = IF closes THEN CLOSED ELSE @,
                 !.failures = IF closes THEN 0 ELSE @]

\* onFailure()
onFailure(b) ==
    LET failureTimestamps == inWindow(Append(b.failureTimestamps, b.now), b.now)
    IN [b EXCEPT !.lastFailureTime = b.now,
                 !.failureTimestamps = failureTimestamps,
                 !.state = IF b.state = HALF_OPEN THEN OPEN
                           ELSE IF Len(failureTimestamps) >= ScaledFailureThreshold
                           THEN OPEN
                           ELSE @]

\* reset()
reset(b) ==
    [b EXCEPT !.state = CLOSED, !.failures = 0, !.successes = 0,
              !.failureTimestamps = <<>>]

\* the breaker after construction; the fields after "now" are bookkeeping:
\* pending counts the wrapped calls in flight, call flips at every
\* execute(), event names the last step, rejected tells that an execute()
\* was refused since the breaker last opened, sinceSuccess lists every
\* failure time since the last success or reset, and halfOpenSuccesses
\* counts the successes since the breaker last became half-open
NewBreaker ==
    [state |-> CLOSED, failures |-> 0, successes |-> 0, lastFailureTime |-> 0,
     failureTimestamps |-> <<>>, now |-> 0,
     pending |-> 0, call |-> 0, event |-> "new", rejected |-> FALSE,
     sinceSuccess |-> <<>>, halfOpenSuccesses |-> 0]

\* execute(fn) up to "await fn()": an open breaker refuses the call unless
\* the cool-down is over, in which case it becomes half-open first
executeCall ==
    /\ breaker.pending < MaxPending
    /\ LET refuse == /\ breaker.state = OPEN
                     /\ ~coolDownElapsed(breaker.now, breaker.lastFailureTime)
           probe == breaker.state = OPEN /\ ~refuse
       IN breaker' =
             [breaker EXCEPT
                 !.call = 1 - @,
                 !.state = IF probe THEN HALF_OPEN ELSE @,
                 !.successes = IF probe THEN 0 ELSE @,
                 !.halfOpenSuccesses = IF probe THEN 0 ELSE @,
                 !.pending = IF refuse THEN @ ELSE @ + 1,
                 !.rejected = IF refuse THEN TRUE ELSE @,
                 !.event = IF refuse THEN "rejected" ELSE "invoked"]
    /\ UNCHANGED <<dataVars, orchVars, libVars, gateRuns, pool, jobs>>

\* the wrapped promise resolves: "this.onSuccess(); return result"
fnResolves ==
    /\ breaker.pending > 0
    /\ breaker' =
          [onSuccess(breaker) EXCEPT
              !.pending = @ - 1,
              !.event = "success",
              !.sinceSuccess = <<>>,
              !.halfOpenSuccesses = IF breaker.state = HALF_OPEN THEN @ + 1 ELSE @]
    /\ UNCHANGED <<dataVars, orchVars, libVars, gateRuns, pool, jobs>>

\* the wrapped promise rejects: "this.onFailure(); throw error"
fnRejects ==
    /\ breaker.pending > 0
    /\ breaker' =
          [onFailure(breaker) EXCEPT
              !.pending = @ - 1,
              !.event = "failure",
              !.rejected = IF onFailure(breaker).state = OPEN /\ breaker.state # OPEN
                           THEN FALSE ELSE @,
              !.sinceSuccess = Append(@, breaker.now)]
    /\ UNCHANGED <<dataVars, orchVars, libVars, gateRuns, pool, jobs>>

\* a caller resets the breaker
resetCall ==
    /\ breaker.event # "reset"
    /\ breaker' = [reset(breaker) EXCEPT !.event = "reset", !.sinceSuccess = <<>>]
    /\ UNCHANGED <<dataVars, orchVars, libVars, gateRuns, pool, jobs>>

\* Date.now() moves on
clockTick ==
    /\ breaker.now < MaxNow
    /\ breaker' = [breaker EXCEPT !.now = @ + 1, !.event = "tick"]
    /\ UNCHANGED <<dataVars, orchVars, libVars, gateRuns, pool, jobs>>

InitBreaker ==
    /\ OrchInit
    /\ StoresIdle
    /\ LibIdle
    /\ gateRuns = NoGateRuns
    /\ pool = NoPool
    /\ jobs = NoJobs
    /\ breaker = NewBreaker

NextBreaker ==
    \/ executeCall
    \/ fnResolves
    \/ fnRejects
    \/ resetCall
    \/ clockTick

SpecBreaker == InitBreaker /\ [][NextBreaker]_vars

\* the cool-down since the last failure is over
CoolDownOver == breaker.now - breaker.lastFailureTime > ScaledTimeout

\* this step is a call of execute()
ExecuteCalled == breaker'.call # breaker.call

\* C38: while the breaker is open and the cool-down since the last failure
\* is not over, execute fails and the wrapped function is not invoked; an
\* execute once the cool-down is over makes the breaker half-open and
\* invokes the function
C38_OpenRefusesUntilCoolDown ==
    [][/\ (breaker.state = OPEN /\ ~CoolDownOver) =>
             /\ breaker'.pending <= breaker.pending
             /\ ExecuteCalled =>
                   (breaker'.event = "rejected" /\ breaker'.state = OPEN)
       /\ (breaker.state = OPEN /\ CoolDownOver /\ ExecuteCalled) =>
             /\ breaker'.state = HALF_OPEN
             /\ breaker'.event = "invoked"
             /\ breaker'.pending = breaker.pending + 1]_vars

\* the breaker refused a call while open and has now, the cool-down over,
\* become half-open and invoked the function
C38_Witness ==
    /\ breaker.state = HALF_OPEN
    /\ breaker.event = "invoked"
    /\ breaker.rejected
    /\ CoolDownOver

\* the failures since the last success or reset that lie inside the window
WindowCount(b) ==
    Cardinality({i \in 1..Len(b.sinceSuccess) :
                    b.now - b.sinceSuccess[i] < ScaledWindow})

\* this step records a failure, a success, a reset
FailureRecorded == breaker'.event = "failure" /\ breaker'.pending < breaker.pending
SuccessRecorded == breaker'.event = "success" /\ breaker'.pending < breaker.pending
ResetDone == breaker'.event = "reset" /\ breaker.event # "reset"

\* C39: the breaker goes from closed to open exactly when a failure brings
\* the failures inside the sliding window, with no success in between, to
\* failureThreshold; a failure while half-open opens it again and only the
\* successThreshold-th success while half-open closes it; it never goes
\* from closed to half-open, and never from open to closed, reset apart
C39_Transitions ==
    [][/\ (breaker.state = CLOSED /\ breaker'.state = OPEN) <=>
             /\ breaker.state = CLOSED
             /\ FailureRecorded
             /\ WindowCount(breaker') >= ScaledFailureThreshold
       /\ (breaker.state = HALF_OPEN /\ FailureRecorded) => breaker'.state = OPEN
       /\ (breaker.state = HALF_OPEN /\ breaker'.state = CLOSED) =>
             \/ ResetDone
             \/ /\ SuccessRecorded
                /\ breaker'.halfOpenSuccesses = ScaledSuccessThreshold
       /\ (/\ breaker.state = HALF_OPEN
           /\ SuccessRecorded
           /\ breaker'.halfOpenSuccesses >= ScaledSuccessThreshold) =>
             breaker'.state = CLOSED
       /\ ~(breaker.state = CLOSED /\ breaker'.state = HALF_OPEN)
       /\ (breaker.state = OPEN /\ breaker'.state = CLOSED) => ResetDone]_vars

\* the breaker has opened, become half-open and been closed by successes
C39_Witness ==
    /\ breaker.state = CLOSED
    /\ breaker.event = "success"
    /\ breaker.halfOpenSuccesses = ScaledSuccessThreshold
    /\ breaker.lastFailureTime > 0

(***************************************************************************)
(* SpecQueue: one InMemoryQueue.  process() starts a polling loop that     *)
(* shifts a job off the queue and awaits the handler; close() ends the     *)
(* loop at its next test of isProcessing, and a process() call made        *)
(* before that starts a second loop beside it.                             *)
(***************************************************************************)
\* jobs enqueued in all
MaxJobs == 3
\* polling loops alive at one time
MaxLoops == 2

Loops == 1..MaxLoops
NoLoop == [at |-> "none", job |-> 0]

\* a dead-letter move that is handed the job itself
moveToDeadLetter_Always(q, jobId, error) ==
    [q EXCEPT !.deadLetterQueue = Append(@, [job |-> jobId, error |-> error])]

\* moveToDeadLetter(jobId, error): "const job = this.queue.find(j => j.id
\* === jobId); if (job) this.deadLetterQueue.push({ job, error })"
moveToDeadLetter(q, jobId, error) ==
    IF \E i \in 1..Len(q.queue) : q.queue[i] = jobId
    THEN [q EXCEPT !.deadLetterQueue = Append(@, [job |-> jobId, error |-> error])]
    ELSE q

\* getHealth()
getHealth(q) ==
    [isHealthy |-> Len(q.queue) < 1000,
     depth |-> Len(q.queue),
     processing |-> Cardinality(q.processing),
     failed |-> Len(q.deadLetterQueue)]

\* the queue after construction; jobs are named by their enqueue number
\* (the ids of the code are a time stamp and a random suffix, taken to be
\* distinct); handed and threw are bookkeeping: the jobs given to the
\* handler, in order, and the jobs whose handler threw
NewQueue ==
    [queue |-> <<>>, processing |-> {}, deadLetterQueue |-> <<>>,
     isProcessing |-> FALSE, loop |-> [l \in Loops |-> NoLoop],
     enqueued |-> 0, handed |-> <<>>, threw |-> {}]

\* enqueue(payload, options)
enqueue ==
    /\ jobs.enqueued < MaxJobs
    /\ jobs' = [jobs EXCEPT !.enqueued = @ + 1,
                            !.queue = Append(@, jobs.enqueued + 1)]
    /\ UNCHANGED <<dataVars, orchVars, libVars, gateRuns, pool, breaker>>

\* process(handler): "if (this.isProcessing) return", else a new loop
process(l) ==
    /\ ~jobs.isProcessing
    /\ jobs.loop[l].at = "none"
    /\ \A k \in Loops : k < l => jobs.loop[k].at # "none"
    /\ jobs' = [jobs EXCEPT !.isProcessing = TRUE, !.loop[l].at = "polling"]
    /\ UNCHANGED <<dataVars, orchVars, libVars, gateRuns, pool, breaker>>

\* "const job = this.queue.shift(); this.processing.add(job.id)" and the
\* call of the handler
loopTakes(l) ==
    /\ jobs.loop[l].at = "polling"
    /\ jobs.isProcessing
    /\ jobs.queue # <<>>
    /\ jobs' = [jobs EXCEPT !.queue = Tail(@),
                            !.processing = @ \cup {Head(jobs.queue)},
                            !.loop[l] = [at |-> "handling", job |-> Head(jobs.queue)],
                            !.handed = Append(@, Head(jobs.queue))]
    /\ UNCHANGED <<dataVars, orchVars, libVars, gateRuns, pool, breaker>>

\* the handler returns: "this.processing.delete(job.id)"
handlerReturns(l) ==
    /\ jobs.loop[l].at = "handling"
    /\ jobs' = [jobs EXCEPT !.processing = @ \ {jobs.loop[l].job},
                            !.loop[l] = [at |-> "polling", job |-> 0]]
    /\ UNCHANGED <<dataVars, orchVars, libVars, gateRuns, pool, breaker>>

\* the handler throws: "this.processing.delete(job.id); await
\* this.moveToDeadLetter(job.id, error)"
handlerThrows(l) ==
    /\ jobs.loop[l].at = "handling"
    /\ LET job == jobs.loop[l].job
           q == [jobs EXCEPT !.processing = @ \ {job},
                             !.loop[l] = [at |-> "polling", job |-> 0],
                             !.threw = @ \cup {job}]
       IN jobs' = moveToDeadLetter(q, job, "handler error")
    /\ UNCHANGED <<dataVars, orchVars, libVars, gateRuns, pool, breaker>>

\* "while (this.isProcessing)" finds the flag cleared: the loop ends
loopEnds(l) ==
    /\ jobs.loop[l].at = "polling"
    /\ ~jobs.isProcessing
    /\ jobs' = [jobs EXCEPT !.loop[l] = NoLoop]
    /\ UNCHANGED <<dataVars, orchVars, libVars, gateRuns, pool, breaker>>

\* close()
close ==
    /\ jobs.isProcessing
    /\ jobs' = [jobs EXCEPT !.isProcessing = FALSE]
    /\ UNCHANGED <<dataVars, orchVars, libVars, gateRuns, pool, breaker>>

InitQueue ==
    /\ OrchInit
    /\ StoresIdle
    /\ LibIdle
    /\ gateRuns = NoGateRuns
    /\ pool = NoPool
    /\ breaker = NoBreaker
    /\ jobs = NewQueue

NextQueue ==
    \/ enqueue
    \/ close
    \/ \E l \in Loops :
          \/ process(l)
          \/ loopTakes(l)
          \/ handlerReturns(l)
          \/ handlerThrows(l)
          \/ loopEnds(l)

SpecQueue == InitQueue /\ [][NextQueue]_vars

\* no handler is running
NoneHandling == \A l \in Loops : jobs.loop[l].at # "handling"

\* every job was handed to the handler at most once, in enqueue order
HandedOnceInOrder == \A i \in 1..Len(jobs.handed) : jobs.handed[i] = i

\* C40: a job whose handler throws is moved to the dead-letter list: once
\* no handler is running, the failed count of getHealth equals the number
\* of jobs whose handler threw; and every job is handed to the handler
\* once, in enqueue order
C40_FailedCountsThrowingJobs ==
    /\ NoneHandling => getHealth(jobs).failed = Cardinality(jobs.threw)
    /\ HandedOnceInOrder

\* the dead-letter list never receives anything
DeadLetterStaysEmpty == jobs.deadLetterQueue = <<>>

\* every job has been handed out, and one of them threw
AllHandedOneThrew ==
    /\ Len(jobs.handed) = MaxJobs
    /\ NoneHandling
    /\ jobs.threw # {}

====
